---- MODULE Spec2Model ----
(***************************************************************************)
(* Pairwise sequence alignment (hdescobarh/pairwasm_alignment).            *)
(*                                                                         *)
(* The model follows one aligner instance through run(): border            *)
(* initialization, the row-major fill of the BackTrack matrix, the         *)
(* explicit-stack backtracking and the reconstruction of the alignments.   *)
(* Scores are f32 in the source; every value reached here is an integer    *)
(* that f32 represents exactly, so scores are modelled as integers.        *)
(***************************************************************************)
EXTENDS Integers, Sequences, FiniteSets, TLC

(***************************************************************************)
(* Bounds of the model.                                                    *)
(***************************************************************************)
\* longest left / top sequence handed to an aligner
MaxLen == 3
\* largest hand-built matrix handed directly to BackTrack::backtracking:
\* rows + cols of the matrix
MaxBTDim == 5
\* how many times run() is called on one aligner instance
MaxRuns == 2
\* largest hand-built matrix with Empty cells: rows * cols of the matrix
MaxBTECells == 6
\* largest number of rows and of columns of a Matrix used on its own
MaxMatrixDim == 2
MaxEntryLen == 2
MaxCandidate == 2
\* longest coordinate path handed to AlignmentSequence::new on its own
MaxPathLen == 3
\* longest sequence of a fill whose cells are written in any order
MaxWaveLen == 2
\* longest sequence of a solver whose matrix is traversed from any start cell
MaxTermLen == 2

(***************************************************************************)
(* Symbols: the Aac enum, by ordinal (src/src/bioseq.rs).                  *)
(***************************************************************************)
Aac_A == 0
Aac_C == 1
Alphabet == {Aac_A, Aac_C}

\* f32::NEG_INFINITY, below every score the model reaches
NEG_INFINITY == -1000000

Min(a, b) == IF a <= b THEN a ELSE b
Max(a, b) == IF a >= b THEN a ELSE b

\* Option<A>: None is the empty sequence, Some(x) the one-element sequence
None == << >>
Some(x) == << x >>

SeqsUpTo(n) == UNION {[1..k -> Alphabet] : k \in 0..n}

(***************************************************************************)
(* Symbol pairing and the substitution table.                              *)
(***************************************************************************)
\* u16 arithmetic: a result is kept modulo 2^16
U16 == 65536

\* TRUE when one of the u16 operations of cantor_pairing overflows
cantor_pairing_overflows(k1, k2) ==
    LET k12 == (k1 + k2) % U16
    IN  \/ k1 + k2 >= U16
        \/ k12 + 1 >= U16
        \/ k12 * ((k12 + 1) % U16) >= U16
        \/ (((k12 * ((k12 + 1) % U16)) % U16) \div 2) + k2 >= U16

\* the same function on one byte
cantor_pairing_u8(k1, k2) ==
    LET k12 == (k1 + k2) % 256
    IN  ((((k12 * ((k12 + 1) % 256)) % 256) \div 2) + k2) % 256

cantor_pairing(k1, k2) ==
    LET k12 == (k1 + k2) % U16
    IN  ((((k12 * ((k12 + 1) % U16)) % U16) \div 2) + k2) % U16

duple_pairing(code_1, code_2) == cantor_pairing(code_1, code_2)

\* the entries of the BLOSUM62 table for the symbols of Alphabet: (key, score)
BLOSUM62 == (0 :> 4) @@ (2 :> 0) @@ (4 :> 9)

\* AaSymTable::search: sort the two codes, pair them, look the key up
search(schema, code_1, code_2) ==
    LET lo == Min(code_1, code_2)
        hi == Max(code_1, code_2)
    IN  schema[duple_pairing(lo, hi)]

(***************************************************************************)
(* Gap penalties.                                                          *)
(***************************************************************************)
Affine(open_cost, extend_cost) ==
    [kind |-> "Affine", open_cost |-> open_cost, extend_cost |-> extend_cost]
Linear(extend_cost) ==
    [kind |-> "Linear", open_cost |-> 0, extend_cost |-> extend_cost]

\* the gap models the aligners are built with (all inside the valid ranges)
Penalties == {Affine(10, 1), Affine(2, 1), Linear(1)}

\* GapPenalty::function (length >= 1 is checked by check_length)
function(p, length) ==
    IF p.kind = "Affine"
    THEN p.open_cost + (p.extend_cost * length)
    ELSE p.extend_cost * length

\* GapPenalty::open
open(p) == IF p.kind = "Affine" THEN p.open_cost ELSE 0

\* GapPenalty::extend
extend(p) == p.extend_cost

\* the valid ranges of the costs
MIN_OPEN_COST == 1
MAX_OPEN_COST == 100
MIN_EXTEND_COST == 0
MAX_EXTEND_COST == 10

\* PenaltyKind
PenaltyKind_Affine(open_cost, extend_cost) ==
    [name |-> "Affine", open_cost |-> open_cost, extend_cost |-> extend_cost]
PenaltyKind_Linear(extend_cost) ==
    [name |-> "Linear", open_cost |-> 0, extend_cost |-> extend_cost]

\* the three checks: TRUE when the check passes, FALSE when it panics
check_length(length) == ~(length <= 0)

\* a check that leaves the lower end of the interval out
check_open_cost_strict(open_cost) ==
    (MIN_OPEN_COST < open_cost) /\ (open_cost <= MAX_OPEN_COST)

check_open_cost(open_cost) ==
    (MIN_OPEN_COST <= open_cost) /\ (open_cost <= MAX_OPEN_COST)

check_extend_cost(extend_cost) ==
    (MIN_EXTEND_COST <= extend_cost) /\ (extend_cost <= MAX_EXTEND_COST)

\* Affine::new and Linear::new: panic is TRUE when a check panics
Affine_new(open_cost, extend_cost) ==
    IF check_open_cost(open_cost) /\ check_extend_cost(extend_cost)
    THEN [panic |-> FALSE, penalty |-> Affine(open_cost, extend_cost)]
    ELSE [panic |-> TRUE]

Linear_new(extend_cost) ==
    IF check_extend_cost(extend_cost)
    THEN [panic |-> FALSE, penalty |-> Linear(extend_cost)]
    ELSE [panic |-> TRUE]

penalty_builder(kind) ==
    IF kind.name = "Affine" THEN Affine_new(kind.open_cost, kind.extend_cost)
    ELSE Linear_new(kind.extend_cost)

\* GapPenalty::function with its check_length
function_checked(p, length) ==
    IF check_length(length)
    THEN [panic |-> FALSE, value |-> function(p, length)]
    ELSE [panic |-> TRUE]

\* ScoringSchema getters of AaScoringSchema
get_score(code_1, code_2) == search(BLOSUM62, code_1, code_2)
get_function(p, length) == function(p, length)
get_open(p) == open(p)
get_extend(p) == open(p)

(***************************************************************************)
(* BackTrack cells.  ind is the enum discriminant (bit 1 = top, bit 2 =    *)
(* diagonal, bit 4 = left), 0 is Empty.                                    *)
(***************************************************************************)
Empty == [ind |-> 0, score |-> 0]

\* a constructor that takes the top bit for left and the left bit for top
nonempty_from_discriminant_swapped(discriminant, score) ==
    [ind |-> CASE discriminant = 1 -> 4
               [] discriminant = 4 -> 1
               [] discriminant = 3 -> 6
               [] discriminant = 6 -> 3
               [] OTHER -> discriminant,
     score |-> score]

nonempty_from_discriminant(discriminant, score) ==
    [ind |-> discriminant, score |-> score]

HasT(ind) == ind \in {1, 3, 5, 7}
HasD(ind) == ind \in {2, 3, 6, 7}
HasL(ind) == ind \in {4, 5, 6, 7}

\* decompose: Empty gives (0, NaN)
decompose(backtrack) ==
    IF backtrack.ind = 0
    THEN [indicator |-> 0, score |-> 0, nan |-> TRUE]
    ELSE [indicator |-> backtrack.ind, score |-> backtrack.score, nan |-> FALSE]

Max3(a, b, c) == Max(Max(a, b), c)

\* a make_backtrack that gives the maximum to the first candidate only
make_backtrack_first_maximum(top_v, diagonal_v, left_v) ==
    LET max_score == Max3(top_v, diagonal_v, left_v)
        discriminant == IF top_v = max_score THEN 1
                        ELSE IF diagonal_v = max_score THEN 2
                        ELSE 4
    IN  [backtrack |-> nonempty_from_discriminant(discriminant, max_score),
         score |-> max_score]

make_backtrack(top_v, diagonal_v, left_v) ==
    LET max_score == Max3(top_v, diagonal_v, left_v)
        discriminant == (IF top_v = max_score THEN 1 ELSE 0)
                      + (IF diagonal_v = max_score THEN 2 ELSE 0)
                      + (IF left_v = max_score THEN 4 ELSE 0)
    IN  [backtrack |-> nonempty_from_discriminant(discriminant, max_score),
         score |-> max_score]

(***************************************************************************)
(* Matrix: rows, cols and a row-major container.                           *)
(***************************************************************************)
Matrix_full(value, rows, cols) ==
    [rows |-> rows, cols |-> cols, container |-> [k \in 1..(rows * cols) |-> value]]

InDimension(m, row, col) == row >= 0 /\ col >= 0 /\ row < m.rows /\ col < m.cols

map_2dim_to_1dim_index(m, row, col) == (row * m.cols) + col

index(m, row, col) == m.container[map_2dim_to_1dim_index(m, row, col) + 1]

index_mut(m, row, col, value) ==
    [m EXCEPT !.container[map_2dim_to_1dim_index(m, row, col) + 1] = value]

\* Matrix::empty: no element yet; Vec::with_capacity may reserve more than
\* it is asked for
Matrix_empty(rows, cols, capacity) ==
    [rows |-> rows, cols |-> cols, container |-> << >>, capacity |-> capacity]

\* Result<T, MatError>
Ok(value) == [ok |-> TRUE, value |-> value]
Err(kind) == [ok |-> FALSE, kind |-> kind]

\* ErrorKind
OutOfDimension(attempted, actual) ==
    [name |-> "OutOfDimension", attempted |-> attempted, actual |-> actual]
EmptyAtIndex(attempted, actual) ==
    [name |-> "EmptyAtIndex", attempted |-> attempted, actual |-> actual]
MatrixFilled(actual) == [name |-> "Filled", actual |-> actual]

\* a get that looks at the length of the container before the dimension
get_length_first(m, row, col) ==
    IF map_2dim_to_1dim_index(m, row, col) >= Len(m.container)
    THEN Err(EmptyAtIndex(<<row, col>>, <<m.rows, m.cols>>))
    ELSE IF (row >= m.rows) \/ (col >= m.cols)
    THEN Err(OutOfDimension(<<row, col>>, <<m.rows, m.cols>>))
    ELSE Ok(index(m, row, col))

\* Matrix::get
get(m, row, col) ==
    IF (row >= m.rows) \/ (col >= m.cols)
    THEN Err(OutOfDimension(<<row, col>>, <<m.rows, m.cols>>))
    ELSE IF map_2dim_to_1dim_index(m, row, col) >= Len(m.container)
    THEN Err(EmptyAtIndex(<<row, col>>, <<m.rows, m.cols>>))
    ELSE Ok(index(m, row, col))

\* Matrix::get_mut: the value is the element the returned reference points to
get_mut(m, row, col) ==
    IF (row >= m.rows) \/ (col >= m.cols)
    THEN Err(OutOfDimension(<<row, col>>, <<m.rows, m.cols>>))
    ELSE IF map_2dim_to_1dim_index(m, row, col) >= Len(m.container)
    THEN Err(EmptyAtIndex(<<row, col>>, <<m.rows, m.cols>>))
    ELSE Ok(index(m, row, col))

\* Matrix::push: the result and the matrix it leaves
push(m, value) ==
    IF Len(m.container) >= m.capacity
    THEN [result |-> Err(MatrixFilled(<<m.rows, m.cols>>)), matrix |-> m]
    ELSE [result |-> Ok(<< >>),
          matrix |-> [m EXCEPT !.container = Append(m.container, value)]]

\* Matrix::last_entry_indices; the division panics when cols is 0
last_entry_indices(m) ==
    IF Len(m.container) = 0 THEN [panic |-> FALSE, value |-> None]
    ELSE IF m.cols = 0 THEN [panic |-> TRUE, value |-> None]
    ELSE LET current_index == Len(m.container) - 1
         IN  [panic |-> FALSE,
              value |-> Some(<<current_index \div m.cols, current_index % m.cols>>)]

(***************************************************************************)
(* Border initialization.                                                  *)
(***************************************************************************)
RowOf(m, k) == (k - 1) \div m.cols
ColOf(m, k) == (k - 1) % m.cols

\* an initialize that charges every border cell a fresh gap of length 1
NW_initialize_accumulated(m, p) ==
    [m EXCEPT !.container =
        [k \in DOMAIN m.container |->
            IF RowOf(m, k) = 0 /\ ColOf(m, k) = 0
            THEN nonempty_from_discriminant(2, 0)
            ELSE IF ColOf(m, k) = 0
            THEN nonempty_from_discriminant(1, 0 - (get_function(p, 1) * RowOf(m, k)))
            ELSE IF RowOf(m, k) = 0
            THEN nonempty_from_discriminant(4, 0 - (get_function(p, 1) * ColOf(m, k)))
            ELSE m.container[k]]]

NW_initialize(m, p) ==
    [m EXCEPT !.container =
        [k \in DOMAIN m.container |->
            IF RowOf(m, k) = 0 /\ ColOf(m, k) = 0
            THEN nonempty_from_discriminant(2, 0)
            ELSE IF ColOf(m, k) = 0
            THEN nonempty_from_discriminant(1, 0 - get_function(p, RowOf(m, k)))
            ELSE IF RowOf(m, k) = 0
            THEN nonempty_from_discriminant(4, 0 - get_function(p, ColOf(m, k)))
            ELSE m.container[k]]]

\* an initialization that writes the corner and column 0, not row 0
SW_initialize_without_row_0(m) ==
    [m EXCEPT !.container =
        [k \in DOMAIN m.container |->
            IF RowOf(m, k) = 0 /\ ColOf(m, k) = 0
            THEN nonempty_from_discriminant(2, 0)
            ELSE IF ColOf(m, k) = 0
            THEN nonempty_from_discriminant(1, 0)
            ELSE m.container[k]]]

SW_initialize(m) ==
    [m EXCEPT !.container =
        [k \in DOMAIN m.container |->
            IF RowOf(m, k) = 0 /\ ColOf(m, k) = 0
            THEN nonempty_from_discriminant(2, 0)
            ELSE IF ColOf(m, k) = 0
            THEN nonempty_from_discriminant(1, 0)
            ELSE IF RowOf(m, k) = 0
            THEN nonempty_from_discriminant(4, 0)
            ELSE m.container[k]]]

(***************************************************************************)
(* The three candidates of the recurrence.  Each reads one neighbour and   *)
(* panics when it is Empty (NeighboursNonEmpty is the guard of the steps). *)
(***************************************************************************)
NeighboursNonEmpty(m, i, j) ==
    /\ index(m, i - 1, j - 1).ind # 0
    /\ index(m, i - 1, j).ind # 0
    /\ index(m, i, j - 1).ind # 0

\* AffineTransversalOrder (used by SmithWaterman)
diagonal_score(sequence_left, sequence_top, m, i, j) ==
    index(m, i - 1, j - 1).score + get_score(sequence_left[i], sequence_top[j])

top_score(p, m, i, j) ==
    LET c == index(m, i - 1, j)
    IN  CASE c.ind = 1 -> c.score - get_extend(p)
          [] c.ind \in {2, 4, 6} -> c.score - get_function(p, 1)
          [] c.ind \in {3, 5, 7} -> c.score - get_extend(p)

left_score(p, m, i, j) ==
    LET c == index(m, i, j - 1)
    IN  CASE c.ind = 4 -> c.score - get_extend(p)
          [] c.ind \in {1, 2, 3} -> c.score - get_function(p, 1)
          [] c.ind \in {6, 5, 7} -> c.score - get_extend(p)

\* NeedlemanWunsch's own copies of the three candidates
NW_diagonal_score(sequence_left, sequence_top, m, i, j) ==
    index(m, i - 1, j - 1).score + get_score(sequence_left[i], sequence_top[j])

NW_top_score(p, m, i, j) ==
    LET c == index(m, i - 1, j)
    IN  CASE c.ind = 1 -> c.score - get_extend(p)
          [] c.ind \in {2, 4, 6} -> c.score - get_function(p, 1)
          [] c.ind \in {3, 5, 7} -> c.score - get_extend(p)

\* a left candidate that never extends a gap
NW_left_score_always_open(p, m, i, j) ==
    index(m, i, j - 1).score - get_function(p, 1)

NW_left_score(p, m, i, j) ==
    LET c == index(m, i, j - 1)
    IN  CASE c.ind = 4 -> c.score - get_extend(p)
          [] c.ind \in {1, 2, 3} -> c.score - get_function(p, 1)
          [] c.ind \in {6, 5, 7} -> c.score - get_extend(p)

(***************************************************************************)
(* One iteration of the fill loops, and the loop order.                    *)
(***************************************************************************)
\* body of the loops of NeedlemanWunsch::solve_subproblems
\* a cell step that also looks at the cell above and to the right, and
\* lowers the diagonal candidate when that cell is not written yet
NW_solve_cell_reads_upper_right(m, sequence_left, sequence_top, p, i, j) ==
    LET late == IF j + 1 < m.cols /\ index(m, i - 1, j + 1).ind = 0 THEN 1 ELSE 0
        diagonal == NW_diagonal_score(sequence_left, sequence_top, m, i, j) - late
        top_v == NW_top_score(p, m, i, j)
        left_v == NW_left_score(p, m, i, j)
    IN  index_mut(m, i, j, make_backtrack(top_v, diagonal, left_v).backtrack)

NW_solve_cell(m, sequence_left, sequence_top, p, i, j) ==
    LET diagonal == NW_diagonal_score(sequence_left, sequence_top, m, i, j)
        top_v == NW_top_score(p, m, i, j)
        left_v == NW_left_score(p, m, i, j)
    IN  index_mut(m, i, j, make_backtrack(top_v, diagonal, left_v).backtrack)

\* an update with the two branches swapped: a new maximum is appended, a
\* tie restarts the list
update_maximum_entries_swapped(gmax, indices, current_maximum, i, j) ==
    IF current_maximum > gmax
    THEN [global_maximum |-> current_maximum,
          maximum_indices |-> Append(indices, <<i, j>>)]
    ELSE IF current_maximum = gmax
    THEN [global_maximum |-> gmax, maximum_indices |-> << <<i, j>> >>]
    ELSE [global_maximum |-> gmax, maximum_indices |-> indices]

update_maximum_entries(gmax, indices, current_maximum, i, j) ==
    IF current_maximum > gmax
    THEN [global_maximum |-> current_maximum, maximum_indices |-> << <<i, j>> >>]
    ELSE IF current_maximum = gmax
    THEN [global_maximum |-> gmax, maximum_indices |-> Append(indices, <<i, j>>)]
    ELSE [global_maximum |-> gmax, maximum_indices |-> indices]

\* body of the loops of SmithWaterman::solve_subproblems
\* a solve step that records the vertical candidate as the cell's maximum
SW_solve_cell_tracks_top(sw, sequence_left, sequence_top, p, i, j) ==
    LET diagonal == Max(diagonal_score(sequence_left, sequence_top, sw.matrix, i, j), 0)
        top_v == Max(top_score(p, sw.matrix, i, j), 0)
        left_v == Max(left_score(p, sw.matrix, i, j), 0)
        made == make_backtrack(top_v, diagonal, left_v)
        upd == update_maximum_entries(sw.global_maximum, sw.maximum_indices,
                                      top_v, i, j)
    IN  [matrix |-> index_mut(sw.matrix, i, j, made.backtrack),
         global_maximum |-> upd.global_maximum,
         maximum_indices |-> upd.maximum_indices]

SW_solve_cell(sw, sequence_left, sequence_top, p, i, j) ==
    LET diagonal == Max(diagonal_score(sequence_left, sequence_top, sw.matrix, i, j), 0)
        top_v == Max(top_score(p, sw.matrix, i, j), 0)
        left_v == Max(left_score(p, sw.matrix, i, j), 0)
        made == make_backtrack(top_v, diagonal, left_v)
        upd == update_maximum_entries(sw.global_maximum, sw.maximum_indices,
                                      made.score, i, j)
    IN  [matrix |-> index_mut(sw.matrix, i, j, made.backtrack),
         global_maximum |-> upd.global_maximum,
         maximum_indices |-> upd.maximum_indices]

\* for i in 1..rows { for j in 1..cols { .. } }
LoopEmpty(m) == m.rows <= 1 \/ m.cols <= 1
LoopLast(m, i, j) == i = m.rows - 1 /\ j = m.cols - 1
NextI(m, i, j) == IF j + 1 < m.cols THEN i ELSE i + 1
NextJ(m, i, j) == IF j + 1 < m.cols THEN j + 1 ELSE 1

(***************************************************************************)
(* BackTrack::find_paths: one invocation.  status "recurse" is the tail    *)
(* call, "return" the return to backtracking(), "panic" an abort.          *)
(***************************************************************************)
\* a comparison that lets a score equal to the cutoff through
LeF32_strict(d, cutoff) == ~d.nan /\ d.score < cutoff

LeF32(d, cutoff) == ~d.nan /\ d.score <= cutoff

\* a pop that hands out the top branch and leaves it on the stack
Pop_keeps_branch(stack) == stack

Pop(stack) == SubSeq(stack, 1, Len(stack) - 1)
Last(s) == s[Len(s)]

\* find_paths that pushes only one of the two pending branches of an All cell
find_paths_one_branch(m, current, pending, found, cutoff) ==
    LET row == Last(current)[1]
        col == Last(current)[2]
        d == decompose(index(m, row, col))
        up == Append(current, <<row - 1, col>>)
        diag == Append(current, <<row - 1, col - 1>>)
        lft == Append(current, <<row, col - 1>>)
        go(cur, pend) == [current_path |-> cur, pending_stack |-> pend,
                          paths |-> found, status |-> "recurse"]
        abort == [current_path |-> current, pending_stack |-> pending,
                  paths |-> found, status |-> "panic"]
    IN  IF ~InDimension(m, row, col) THEN abort
        ELSE IF (row = 0 /\ col = 0) \/ LeF32(d, cutoff)
        THEN IF pending # << >>
             THEN [current_path |-> Last(pending), pending_stack |-> Pop(pending),
                   paths |-> Append(found, current), status |-> "recurse"]
             ELSE [current_path |-> current, pending_stack |-> pending,
                   paths |-> Append(found, current), status |-> "return"]
        ELSE CASE d.indicator = 1 -> go(up, pending)
               [] d.indicator = 2 -> go(diag, pending)
               [] d.indicator = 4 -> go(lft, pending)
               [] d.indicator = 3 -> go(diag, Append(pending, up))
               [] d.indicator = 6 -> go(diag, Append(pending, lft))
               [] d.indicator = 5 -> go(up, Append(pending, lft))
               [] d.indicator = 7 -> go(diag, Append(pending, lft))
               [] OTHER -> abort

find_paths(m, current, pending, found, cutoff) ==
    LET row == Last(current)[1]
        col == Last(current)[2]
        d == decompose(index(m, row, col))
        up == Append(current, <<row - 1, col>>)
        diag == Append(current, <<row - 1, col - 1>>)
        lft == Append(current, <<row, col - 1>>)
        go(cur, pend) == [current_path |-> cur, pending_stack |-> pend,
                          paths |-> found, status |-> "recurse"]
        abort == [current_path |-> current, pending_stack |-> pending,
                  paths |-> found, status |-> "panic"]
    IN  IF ~InDimension(m, row, col) THEN abort
        ELSE IF (row = 0 /\ col = 0) \/ LeF32(d, cutoff)
        THEN IF pending # << >>
             THEN [current_path |-> Last(pending), pending_stack |-> Pop(pending),
                   paths |-> Append(found, current), status |-> "recurse"]
             ELSE [current_path |-> current, pending_stack |-> pending,
                   paths |-> Append(found, current), status |-> "return"]
        ELSE CASE d.indicator = 1 -> go(up, pending)
               [] d.indicator = 2 -> go(diag, pending)
               [] d.indicator = 4 -> go(lft, pending)
               [] d.indicator = 3 -> go(diag, Append(pending, up))
               [] d.indicator = 6 -> go(diag, Append(pending, lft))
               [] d.indicator = 5 -> go(up, Append(pending, lft))
               [] d.indicator = 7 -> go(diag, Append(Append(pending, lft), up))
               [] OTHER -> abort

(***************************************************************************)
(* AlignmentSequence::new: the path is ordered from end to start, the      *)
(* pairs from start to end.                                                *)
(***************************************************************************)
InSeq(s, n) == n >= 1 /\ n <= Len(s)

\* the step that arrives at (row, col) from (last_row, last_col) panics
StepPanics(cur, nxt, sequence_left, sequence_top) ==
    LET row == cur[1]
        col == cur[2]
    IN  IF row # nxt[1] /\ col # nxt[2]
        THEN ~InSeq(sequence_left, row) \/ ~InSeq(sequence_top, col)
        ELSE IF row # nxt[1] /\ col = nxt[2] THEN ~InSeq(sequence_left, row)
        ELSE IF row = nxt[1] /\ col # nxt[2] THEN ~InSeq(sequence_top, col)
        ELSE TRUE

\* a step that puts the symbol of a vertical step on the top side and the
\* symbol of a horizontal step on the left side
StepPair_sides_swapped(cur, nxt, sequence_left, sequence_top) ==
    LET row == cur[1]
        col == cur[2]
    IN  IF row # nxt[1] /\ col # nxt[2]
        THEN <<Some(sequence_left[row]), Some(sequence_top[col])>>
        ELSE IF row # nxt[1] /\ col = nxt[2]
        THEN <<None, Some(sequence_left[row])>>
        ELSE <<Some(sequence_top[col]), None>>

StepPair(cur, nxt, sequence_left, sequence_top) ==
    LET row == cur[1]
        col == cur[2]
    IN  IF row # nxt[1] /\ col # nxt[2]
        THEN <<Some(sequence_left[row]), Some(sequence_top[col])>>
        ELSE IF row # nxt[1] /\ col = nxt[2]
        THEN <<Some(sequence_left[row]), None>>
        ELSE <<None, Some(sequence_top[col])>>

\* a reconstruction whose loop stops one step early
AlignmentSequence_new_off_by_one(backtrack_path, sequence_left, sequence_top) ==
    LET n == Len(backtrack_path)
        bad == \E k \in 1..(n - 1) :
                  StepPanics(backtrack_path[k], backtrack_path[k + 1],
                             sequence_left, sequence_top)
    IN  IF n = 0 \/ bad
        THEN [ok |-> FALSE, pairs |-> << >>]
        ELSE [ok |-> TRUE,
              pairs |-> [x \in 1..(n - 2) |->
                            StepPair(backtrack_path[n - x], backtrack_path[n - x + 1],
                                     sequence_left, sequence_top)]]

AlignmentSequence_new(backtrack_path, sequence_left, sequence_top) ==
    LET n == Len(backtrack_path)
        bad == \E k \in 1..(n - 1) :
                  StepPanics(backtrack_path[k], backtrack_path[k + 1],
                             sequence_left, sequence_top)
    IN  IF n = 0 \/ bad
        THEN [ok |-> FALSE, pairs |-> << >>]
        ELSE [ok |-> TRUE,
              pairs |-> [x \in 1..(n - 1) |->
                            StepPair(backtrack_path[n - x], backtrack_path[n - x + 1],
                                     sequence_left, sequence_top)]]

\* a reduce that keeps the shorter path
RECURSIVE reduce_shortest(_, _)
reduce_shortest(acc, rest) ==
    IF rest = << >> THEN acc
    ELSE reduce_shortest(IF Len(acc) < Len(Head(rest)) THEN acc ELSE Head(rest),
                         Tail(rest))

\* all_paths.into_iter().reduce(|acc, e| if acc.len() > e.len() { acc } else { e })
RECURSIVE reduce_longest(_, _)
reduce_longest(acc, rest) ==
    IF rest = << >> THEN acc
    ELSE reduce_longest(IF Len(acc) > Len(Head(rest)) THEN acc ELSE Head(rest),
                        Tail(rest))

(***************************************************************************)
(* run() as a function of its inputs: the same steps, composed.  ok is     *)
(* FALSE when the run aborts.                                              *)
(***************************************************************************)
\* the loops of NeedlemanWunsch::solve_subproblems from cell (i, j) on
RECURSIVE NW_solve_subproblems(_, _, _, _, _, _)
NW_solve_subproblems(m, left, top, p, i, j) ==
    IF ~NeighboursNonEmpty(m, i, j) THEN [ok |-> FALSE, matrix |-> m]
    ELSE LET solved == NW_solve_cell(m, left, top, p, i, j)
         IN  IF LoopLast(m, i, j) THEN [ok |-> TRUE, matrix |-> solved]
             ELSE NW_solve_subproblems(solved, left, top, p,
                                       NextI(m, i, j), NextJ(m, i, j))

\* the loops of SmithWaterman::solve_subproblems from cell (i, j) on
RECURSIVE SW_solve_subproblems(_, _, _, _, _, _)
SW_solve_subproblems(sw, left, top, p, i, j) ==
    IF ~NeighboursNonEmpty(sw.matrix, i, j)
    THEN [ok |-> FALSE, matrix |-> sw.matrix, global_maximum |-> sw.global_maximum,
          maximum_indices |-> sw.maximum_indices]
    ELSE LET solved == SW_solve_cell(sw, left, top, p, i, j)
         IN  IF LoopLast(sw.matrix, i, j)
             THEN [ok |-> TRUE, matrix |-> solved.matrix,
                   global_maximum |-> solved.global_maximum,
                   maximum_indices |-> solved.maximum_indices]
             ELSE SW_solve_subproblems(solved, left, top, p,
                                       NextI(sw.matrix, i, j), NextJ(sw.matrix, i, j))

\* find_paths and its tail calls, up to the return or the abort
RECURSIVE find_paths_to_return(_, _, _, _, _)
find_paths_to_return(m, current, pending, found, cutoff) ==
    LET r == find_paths(m, current, pending, found, cutoff)
    IN  IF r.status = "recurse"
        THEN find_paths_to_return(m, r.current_path, r.pending_stack, r.paths, cutoff)
        ELSE r

\* BackTrack::backtracking
backtracking(m, init_row, init_col, cutoff) ==
    LET r == find_paths_to_return(m, << <<init_row, init_col>> >>, << >>, << >>, cutoff)
    IN  [ok |-> r.status = "return", paths |-> r.paths]

\* NeedlemanWunsch::run
NW_run(left, top, p) ==
    LET initialized == NW_initialize(Matrix_full(Empty, 1 + Len(left), 1 + Len(top)), p)
        solved == IF LoopEmpty(initialized) THEN [ok |-> TRUE, matrix |-> initialized]
                  ELSE NW_solve_subproblems(initialized, left, top, p, 1, 1)
        found == backtracking(solved.matrix, solved.matrix.rows - 1,
                              solved.matrix.cols - 1, NEG_INFINITY)
        built == [k \in 1..Len(found.paths) |->
                     AlignmentSequence_new(found.paths[k], left, top)]
    IN  IF solved.ok /\ found.ok /\ (\A k \in 1..Len(found.paths) : built[k].ok)
        THEN [ok |-> TRUE, matrix |-> solved.matrix,
              score |-> index(solved.matrix, Len(left), Len(top)).score,
              alignments |-> [k \in 1..Len(found.paths) |-> built[k].pairs]]
        ELSE [ok |-> FALSE, matrix |-> solved.matrix, score |-> 0, alignments |-> << >>]

\* for [init_row, init_col] in &self.maximum_indices { all_paths.append(..) }
RECURSIVE SW_all_paths(_, _, _)
SW_all_paths(m, indices, k) ==
    IF k > Len(indices) THEN [ok |-> TRUE, paths |-> << >>]
    ELSE LET found == backtracking(m, indices[k][1], indices[k][2], 0)
             rest == SW_all_paths(m, indices, k + 1)
         IN  [ok |-> found.ok /\ rest.ok, paths |-> found.paths \o rest.paths]

\* SmithWaterman::run
SW_run(left, top, p) ==
    LET initialized == [matrix |-> SW_initialize(Matrix_full(Empty, 1 + Len(left),
                                                             1 + Len(top))),
                        global_maximum |-> NEG_INFINITY,
                        maximum_indices |-> << >>]
        solved == IF LoopEmpty(initialized.matrix)
                  THEN [ok |-> TRUE, matrix |-> initialized.matrix,
                        global_maximum |-> NEG_INFINITY, maximum_indices |-> << >>]
                  ELSE SW_solve_subproblems(initialized, left, top, p, 1, 1)
        found == SW_all_paths(solved.matrix, solved.maximum_indices, 1)
        built == AlignmentSequence_new(reduce_longest(Head(found.paths),
                                                      Tail(found.paths)), left, top)
    IN  IF solved.ok /\ found.ok /\ found.paths # << >> /\ built.ok
        THEN [ok |-> TRUE, matrix |-> solved.matrix, score |-> solved.global_maximum,
              alignments |-> << built.pairs >>]
        ELSE [ok |-> FALSE, matrix |-> solved.matrix, score |-> solved.global_maximum,
              alignments |-> << >>]

(***************************************************************************)
(* State of one aligner instance and of the run() in progress.             *)
(***************************************************************************)
VARIABLES
    sequence_left,    \* the left (row) sequence
    sequence_top,     \* the top (column) sequence
    penalty_kind,     \* the gap model of the scoring schema
    algorithm,        \* "NeedlemanWunsch", "SmithWaterman", or "Backtracking"
                      \* for a direct call of BackTrack::backtracking
    matrix,           \* Matrix<BackTrack>
    global_maximum,   \* SmithWaterman: the highest found score
    maximum_indices,  \* SmithWaterman: indices whose score is the maximum
    pc,               \* position inside run()
    fill_i, fill_j,   \* loop variables of solve_subproblems
    start_k,          \* SmithWaterman::run: position in maximum_indices
    init_cell,        \* backtracking: the start cell [init_row, init_col]
    cutoff_score,     \* find_paths: cutoff of the current traversal
    current_path,     \* find_paths: the path being extended
    pending_stack,    \* find_paths: pending branches
    paths,            \* find_paths: paths found by the current traversal
    all_paths,        \* run: paths of all traversals
    alignments,       \* run: the returned Vec<AlignmentSequence>
    results,          \* what the earlier calls of run() on this instance returned
    call              \* the call at the public boundary: its arguments and outcome

vars == <<sequence_left, sequence_top, penalty_kind, algorithm, matrix,
          global_maximum, maximum_indices, pc, fill_i, fill_j, start_k,
          init_cell, cutoff_score, current_path, pending_stack, paths, all_paths,
          alignments, results, call>>

\* the aligner was built directly, not through a call at the public boundary
NoCall == [name |-> "none"]

inputs == <<sequence_left, sequence_top, penalty_kind, algorithm>>
traversal == <<init_cell, cutoff_score, current_path, pending_stack, paths>>

\* NeedlemanWunsch::new / SmithWaterman::new
Init ==
    /\ sequence_left \in SeqsUpTo(MaxLen)
    /\ sequence_top \in SeqsUpTo(MaxLen)
    /\ penalty_kind \in Penalties
    /\ algorithm \in {"NeedlemanWunsch", "SmithWaterman"}
    /\ matrix = Matrix_full(Empty, 1 + Len(sequence_left), 1 + Len(sequence_top))
    /\ global_maximum = NEG_INFINITY
    /\ maximum_indices = << >>
    /\ pc = "new"
    /\ fill_i = 1
    /\ fill_j = 1
    /\ start_k = 1
    /\ init_cell = <<0, 0>>
    /\ cutoff_score = NEG_INFINITY
    /\ current_path = << >>
    /\ pending_stack = << >>
    /\ paths = << >>
    /\ all_paths = << >>
    /\ alignments = << >>
    /\ results = << >>
    /\ call = NoCall

(***************************************************************************)
(* NeedlemanWunsch::run                                                    *)
(***************************************************************************)
NWInitialize ==
    /\ algorithm = "NeedlemanWunsch"
    /\ pc = "new"
    /\ matrix' = NW_initialize(matrix, penalty_kind)
    /\ pc' = IF LoopEmpty(matrix) THEN "solved" ELSE "solve"
    /\ fill_i' = 1
    /\ fill_j' = 1
    /\ UNCHANGED <<inputs, results, call, global_maximum, maximum_indices, start_k, traversal,
                   all_paths, alignments>>

NWSolveCell ==
    /\ algorithm = "NeedlemanWunsch"
    /\ pc = "solve"
    /\ IF NeighboursNonEmpty(matrix, fill_i, fill_j)
       THEN /\ matrix' = NW_solve_cell(matrix, sequence_left, sequence_top,
                                       penalty_kind, fill_i, fill_j)
            /\ pc' = IF LoopLast(matrix, fill_i, fill_j) THEN "solved" ELSE "solve"
            /\ fill_i' = NextI(matrix, fill_i, fill_j)
            /\ fill_j' = NextJ(matrix, fill_i, fill_j)
       ELSE /\ pc' = "panic"
            /\ UNCHANGED <<matrix, fill_i, fill_j>>
    /\ UNCHANGED <<inputs, results, call, global_maximum, maximum_indices, start_k, traversal,
                   all_paths, alignments>>

\* a run that starts the traversal one row above the last cell
NWBacktracking_one_row_up ==
    /\ algorithm = "NeedlemanWunsch"
    /\ pc = "solved"
    /\ cutoff_score' = NEG_INFINITY
    /\ init_cell' = <<Max(matrix.rows - 2, 0), matrix.cols - 1>>
    /\ current_path' = << <<Max(matrix.rows - 2, 0), matrix.cols - 1>> >>
    /\ pending_stack' = << >>
    /\ paths' = << >>
    /\ pc' = "find_paths"
    /\ UNCHANGED <<inputs, results, call, matrix, global_maximum, maximum_indices, fill_i,
                   fill_j, start_k, all_paths, alignments>>

\* BackTrack::backtracking from the last cell, without cutoff
NWBacktracking ==
    /\ algorithm = "NeedlemanWunsch"
    /\ pc = "solved"
    /\ cutoff_score' = NEG_INFINITY
    /\ init_cell' = <<matrix.rows - 1, matrix.cols - 1>>
    /\ current_path' = << <<matrix.rows - 1, matrix.cols - 1>> >>
    /\ pending_stack' = << >>
    /\ paths' = << >>
    /\ pc' = "find_paths"
    /\ UNCHANGED <<inputs, results, call, matrix, global_maximum, maximum_indices, fill_i,
                   fill_j, start_k, all_paths, alignments>>

\* one AlignmentSequence per path
NWAlignments ==
    /\ algorithm = "NeedlemanWunsch"
    /\ pc = "returned"
    /\ all_paths' = paths
    /\ LET built == [k \in 1..Len(paths) |->
                        AlignmentSequence_new(paths[k], sequence_left, sequence_top)]
       IN  IF \A k \in 1..Len(paths) : built[k].ok
           THEN /\ alignments' = [k \in 1..Len(paths) |-> built[k].pairs]
                /\ pc' = "done"
           ELSE /\ alignments' = alignments
                /\ pc' = "panic"
    /\ UNCHANGED <<inputs, results, call, matrix, global_maximum, maximum_indices, fill_i,
                   fill_j, start_k, traversal>>

(***************************************************************************)
(* SmithWaterman::run                                                      *)
(***************************************************************************)
SWInitialize ==
    /\ algorithm = "SmithWaterman"
    /\ pc = "new"
    /\ matrix' = SW_initialize(matrix)
    /\ pc' = IF LoopEmpty(matrix) THEN "solved" ELSE "solve"
    /\ fill_i' = 1
    /\ fill_j' = 1
    /\ start_k' = 1
    /\ UNCHANGED <<inputs, results, call, global_maximum, maximum_indices, traversal,
                   all_paths, alignments>>

SWSolveCell ==
    /\ algorithm = "SmithWaterman"
    /\ pc = "solve"
    /\ IF NeighboursNonEmpty(matrix, fill_i, fill_j)
       THEN LET sw == SW_solve_cell([matrix |-> matrix,
                                     global_maximum |-> global_maximum,
                                     maximum_indices |-> maximum_indices],
                                    sequence_left, sequence_top, penalty_kind,
                                    fill_i, fill_j)
            IN  /\ matrix' = sw.matrix
                /\ global_maximum' = sw.global_maximum
                /\ maximum_indices' = sw.maximum_indices
                /\ pc' = IF LoopLast(matrix, fill_i, fill_j) THEN "solved" ELSE "solve"
                /\ fill_i' = NextI(matrix, fill_i, fill_j)
                /\ fill_j' = NextJ(matrix, fill_i, fill_j)
       ELSE /\ pc' = "panic"
            /\ UNCHANGED <<matrix, global_maximum, maximum_indices, fill_i, fill_j>>
    /\ UNCHANGED <<inputs, results, call, start_k, traversal, all_paths, alignments>>

\* a run that starts every traversal at the last cell of the matrix
SWBacktracking_from_last_cell ==
    /\ algorithm = "SmithWaterman"
    /\ pc = "solved"
    /\ start_k <= Len(maximum_indices)
    /\ cutoff_score' = 0
    /\ init_cell' = <<matrix.rows - 1, matrix.cols - 1>>
    /\ current_path' = << <<matrix.rows - 1, matrix.cols - 1>> >>
    /\ pending_stack' = << >>
    /\ paths' = << >>
    /\ pc' = "find_paths"
    /\ UNCHANGED <<inputs, results, call, matrix, global_maximum, maximum_indices, fill_i,
                   fill_j, start_k, all_paths, alignments>>

\* for [init_row, init_col] in &self.maximum_indices: the next traversal
SWBacktracking ==
    /\ algorithm = "SmithWaterman"
    /\ pc = "solved"
    /\ start_k <= Len(maximum_indices)
    /\ cutoff_score' = 0
    /\ init_cell' = maximum_indices[start_k]
    /\ current_path' = << maximum_indices[start_k] >>
    /\ pending_stack' = << >>
    /\ paths' = << >>
    /\ pc' = "find_paths"
    /\ UNCHANGED <<inputs, results, call, matrix, global_maximum, maximum_indices, fill_i,
                   fill_j, start_k, all_paths, alignments>>

\* all_paths.append(&mut path)
SWAppend ==
    /\ algorithm = "SmithWaterman"
    /\ pc = "returned"
    /\ all_paths' = all_paths \o paths
    /\ start_k' = start_k + 1
    /\ pc' = "solved"
    /\ UNCHANGED <<inputs, results, call, matrix, global_maximum, maximum_indices, fill_i,
                   fill_j, traversal, alignments>>

\* the longest path (unwrap panics when there is none) and its alignment
SWLongest ==
    /\ algorithm = "SmithWaterman"
    /\ pc = "solved"
    /\ start_k > Len(maximum_indices)
    /\ IF all_paths = << >>
       THEN /\ pc' = "panic"
            /\ alignments' = alignments
       ELSE LET longest_path == reduce_longest(Head(all_paths), Tail(all_paths))
                built == AlignmentSequence_new(longest_path, sequence_left,
                                               sequence_top)
            IN  IF built.ok
                THEN /\ alignments' = << built.pairs >>
                     /\ pc' = "done"
                ELSE /\ alignments' = alignments
                     /\ pc' = "panic"
    /\ UNCHANGED <<inputs, results, call, matrix, global_maximum, maximum_indices, fill_i,
                   fill_j, start_k, traversal, all_paths>>

(***************************************************************************)
(* BackTrack::find_paths, one invocation                                   *)
(***************************************************************************)
FindPaths ==
    /\ pc = "find_paths"
    /\ LET r == find_paths(matrix, current_path, pending_stack, paths, cutoff_score)
       IN  /\ current_path' = r.current_path
           /\ pending_stack' = r.pending_stack
           /\ paths' = r.paths
           /\ pc' = CASE r.status = "recurse" -> "find_paths"
                      [] r.status = "return" -> "returned"
                      [] OTHER -> "panic"
    /\ UNCHANGED <<inputs, results, call, matrix, global_maximum, maximum_indices, fill_i,
                   fill_j, start_k, init_cell, cutoff_score, all_paths,
                   alignments>>

(***************************************************************************)
(* run() is called again on the same instance: the fields of the aligner   *)
(* (matrix, global_maximum, maximum_indices) are what the last run left,   *)
(* the locals of run() are fresh.                                          *)
(***************************************************************************)
RunAgain ==
    /\ pc = "done"
    /\ Len(results) + 1 < MaxRuns
    /\ results' = Append(results, alignments)
    /\ pc' = "new"
    /\ fill_i' = 1
    /\ fill_j' = 1
    /\ start_k' = 1
    /\ init_cell' = <<0, 0>>
    /\ cutoff_score' = NEG_INFINITY
    /\ current_path' = << >>
    /\ pending_stack' = << >>
    /\ paths' = << >>
    /\ all_paths' = << >>
    /\ alignments' = << >>
    /\ UNCHANGED <<inputs, call, matrix, global_maximum, maximum_indices>>

Next ==
    \/ NWInitialize
    \/ NWSolveCell
    \/ NWBacktracking
    \/ NWAlignments
    \/ SWInitialize
    \/ SWSolveCell
    \/ SWBacktracking
    \/ SWAppend
    \/ SWLongest
    \/ FindPaths
    \/ RunAgain

Spec == Init /\ [][Next]_vars

(***************************************************************************)
(* BackTrack::backtracking called directly on a hand-built matrix, as the  *)
(* tests of aligner/utils.rs do: borders as the solvers leave them         *)
(* (D at the corner, L on row 0, T on column 0), any non-empty direction   *)
(* set in the interior, any start cell, no cutoff.                         *)
(***************************************************************************)
HandBuilt(rows, cols) ==
    LET interior == {k \in 1..(rows * cols) :
                        (k - 1) \div cols > 0 /\ (k - 1) % cols > 0}
    IN  {[rows |-> rows, cols |-> cols,
          container |-> [k \in 1..(rows * cols) |->
                            IF k \in interior
                            THEN nonempty_from_discriminant(g[k], 0)
                            ELSE IF k = 1 THEN nonempty_from_discriminant(2, 0)
                            ELSE IF (k - 1) \div cols = 0
                            THEN nonempty_from_discriminant(4, 0)
                            ELSE nonempty_from_discriminant(1, 0)]] :
            g \in [interior -> 1..7]}

InitBT ==
    /\ sequence_left = << >>
    /\ sequence_top = << >>
    /\ penalty_kind = Affine(10, 1)
    /\ algorithm = "Backtracking"
    /\ \E rows \in 1..(MaxBTDim - 1), cols \in 1..(MaxBTDim - 1) :
          /\ rows + cols <= MaxBTDim
          /\ matrix \in HandBuilt(rows, cols)
          /\ \E init_row \in 0..(rows - 1), init_col \in 0..(cols - 1) :
                /\ init_cell = <<init_row, init_col>>
                /\ current_path = << <<init_row, init_col>> >>
    /\ global_maximum = NEG_INFINITY
    /\ maximum_indices = << >>
    /\ pc = "find_paths"
    /\ fill_i = 1
    /\ fill_j = 1
    /\ start_k = 1
    /\ cutoff_score = NEG_INFINITY
    /\ pending_stack = << >>
    /\ paths = << >>
    /\ all_paths = << >>
    /\ alignments = << >>
    /\ results = << >>
    /\ call = NoCall

NextBT == FindPaths

SpecBT == InitBT /\ [][NextBT]_vars

(***************************************************************************)
(* BackTrack::backtracking called directly on a hand-built matrix that may *)
(* hold Empty cells, as the test matrix_backtrack_fails_bad_cell_in_path   *)
(* does, with or without a cutoff.  Every cell is Empty or points inside   *)
(* the matrix (L on row 0, T on column 0, D at the corner, any direction   *)
(* set in the interior); scores are 0 or 1, the cutoff is 0 or none.       *)
(***************************************************************************)
HandBuiltWithEmpty(rows, cols) ==
    LET cells == 1..(rows * cols)
        interior == {k \in cells : (k - 1) \div cols > 0 /\ (k - 1) % cols > 0}
        border == (cells \ interior) \ {1}
        \* interior choice 0 is Empty, 1..14 a direction set with score 0 or 1
        inner(c) == IF c = 0 THEN Empty
                    ELSE nonempty_from_discriminant(((c - 1) % 7) + 1, (c - 1) \div 7)
        \* border choice 0 is Empty, 1..2 the border direction with score 0 or 1
        outer(k, c) == IF c = 0 THEN Empty
                       ELSE nonempty_from_discriminant(
                                IF (k - 1) \div cols = 0 THEN 4 ELSE 1, c - 1)
    IN  {[rows |-> rows, cols |-> cols,
          container |-> [k \in cells |->
                            IF k \in interior THEN inner(g[k])
                            ELSE IF k = 1 THEN z
                            ELSE outer(k, b[k])]] :
            g \in [interior -> 0..14], b \in [border -> 0..2],
            z \in {Empty, nonempty_from_discriminant(2, 0)}}

InitBTE ==
    /\ sequence_left = << >>
    /\ sequence_top = << >>
    /\ penalty_kind = Affine(10, 1)
    /\ algorithm = "Backtracking"
    /\ \E rows \in 1..MaxBTECells, cols \in 1..MaxBTECells :
          /\ rows * cols <= MaxBTECells
          /\ matrix \in HandBuiltWithEmpty(rows, cols)
          /\ \E init_row \in 0..(rows - 1), init_col \in 0..(cols - 1) :
                /\ init_cell = <<init_row, init_col>>
                /\ current_path = << <<init_row, init_col>> >>
    /\ cutoff_score \in {NEG_INFINITY, 0}
    /\ global_maximum = NEG_INFINITY
    /\ maximum_indices = << >>
    /\ pc = "find_paths"
    /\ fill_i = 1
    /\ fill_j = 1
    /\ start_k = 1
    /\ pending_stack = << >>
    /\ paths = << >>
    /\ all_paths = << >>
    /\ alignments = << >>
    /\ results = << >>
    /\ call = NoCall

SpecBTE == InitBTE /\ [][NextBT]_vars

(***************************************************************************)
(* A Matrix<T> used on its own: built by Matrix::empty or Matrix::full,    *)
(* then pushed to and written through get_mut.                             *)
(***************************************************************************)
MatrixValues == {0, 1}

InitMatrix ==
    /\ sequence_left = << >>
    /\ sequence_top = << >>
    /\ penalty_kind = Affine(10, 1)
    /\ algorithm = "Matrix"
    /\ \E rows \in 0..MaxMatrixDim, cols \in 0..MaxMatrixDim :
          \/ \E capacity \in {rows * cols, (rows * cols) + 1} :
                matrix = Matrix_empty(rows, cols, capacity)
          \/ \E value \in MatrixValues :
                matrix = Matrix_full(value, rows, cols) @@ [capacity |-> rows * cols]
    /\ global_maximum = NEG_INFINITY
    /\ maximum_indices = << >>
    /\ pc = "matrix"
    /\ fill_i = 1
    /\ fill_j = 1
    /\ start_k = 1
    /\ init_cell = <<0, 0>>
    /\ cutoff_score = NEG_INFINITY
    /\ current_path = << >>
    /\ pending_stack = << >>
    /\ paths = << >>
    /\ all_paths = << >>
    /\ alignments = << >>
    /\ results = << >>
    /\ call = NoCall

\* matrix.push(value)
MatrixPush(value) ==
    /\ algorithm = "Matrix"
    /\ matrix' = push(matrix, value).matrix
    /\ UNCHANGED <<inputs, results, call, global_maximum, maximum_indices, pc, fill_i,
                   fill_j, start_k, traversal, all_paths, alignments>>

\* *matrix.get_mut(row, col)? = value: nothing is written when get_mut fails
MatrixWrite(row, col, value) ==
    /\ algorithm = "Matrix"
    /\ matrix' = IF get_mut(matrix, row, col).ok
                 THEN index_mut(matrix, row, col, value)
                 ELSE matrix
    /\ UNCHANGED <<inputs, results, call, global_maximum, maximum_indices, pc, fill_i,
                   fill_j, start_k, traversal, all_paths, alignments>>

NextMatrix ==
    \/ \E value \in MatrixValues : MatrixPush(value)
    \/ \E row \in 0..(MaxMatrixDim + 1), col \in 0..(MaxMatrixDim + 1),
          value \in MatrixValues : MatrixWrite(row, col, value)

SpecMatrix == InitMatrix /\ [][NextMatrix]_vars

(***************************************************************************)
(* A gap penalty on its own: penalty_builder is called with a PenaltyKind  *)
(* whose costs lie in or around the valid ranges, then function is         *)
(* evaluated at a length.                                                  *)
(***************************************************************************)
CostValues == {-1, 0, 1, 10, 11, 100, 101}
Lengths == 0..MaxLen

InitPenalty ==
    /\ sequence_left = << >>
    /\ sequence_top = << >>
    /\ penalty_kind = Affine(10, 1)
    /\ algorithm = "Penalty"
    /\ matrix = Matrix_full(Empty, 1, 1)
    /\ global_maximum = NEG_INFINITY
    /\ maximum_indices = << >>
    /\ pc = "request"
    /\ fill_i = 1
    /\ fill_j = 1
    /\ start_k = 1
    /\ init_cell = <<0, 0>>
    /\ cutoff_score = NEG_INFINITY
    /\ current_path = << >>
    /\ pending_stack = << >>
    /\ paths = << >>
    /\ all_paths = << >>
    /\ alignments = << >>
    /\ results = << >>
    /\ \E kind \in {PenaltyKind_Affine(o, e) : o \in CostValues, e \in CostValues}
                   \cup {PenaltyKind_Linear(e) : e \in CostValues} :
          call = [name |-> "penalty_builder", kind |-> kind, length |-> -1, value |-> 0]

\* penalty_builder(kind)
PenaltyBuilder ==
    /\ algorithm = "Penalty"
    /\ pc = "request"
    /\ LET built == penalty_builder(call.kind)
       IN  IF built.panic
           THEN /\ pc' = "panic"
                /\ penalty_kind' = penalty_kind
           ELSE /\ pc' = "built"
                /\ penalty_kind' = built.penalty
    /\ UNCHANGED <<sequence_left, sequence_top, algorithm, matrix, global_maximum,
                   maximum_indices, fill_i, fill_j, start_k, traversal, all_paths,
                   alignments, results, call>>

\* gap_model.function(length)
PenaltyFunction(length) ==
    /\ algorithm = "Penalty"
    /\ pc = "built"
    /\ LET r == function_checked(penalty_kind, length)
       IN  IF r.panic
           THEN /\ pc' = "panic"
                /\ call' = [call EXCEPT !.length = length]
           ELSE /\ pc' = "evaluated"
                /\ call' = [call EXCEPT !.length = length, !.value = r.value]
    /\ UNCHANGED <<inputs, matrix, global_maximum, maximum_indices, fill_i, fill_j,
                   start_k, traversal, all_paths, alignments, results>>

NextPenalty ==
    \/ PenaltyBuilder
    \/ \E length \in Lengths : PenaltyFunction(length)

SpecPenalty == InitPenalty /\ [][NextPenalty]_vars

(***************************************************************************)
(* The entry point do_protein_alignment.  The strings are sequences of     *)
(* characters; "e'" stands for a character outside ASCII.  The matrix      *)
(* codes offered leave out Blosum45 and Pam160, whose tables are not       *)
(* part of this model.                                                     *)
(***************************************************************************)
Chars == {"A", "c", "B", "e'"}
StringsUpTo(n) == UNION {[1..k -> Chars] : k \in 0..n}

is_ascii(char_code) == char_code # "e'"

to_ascii_uppercase(char_code) == IF char_code = "c" THEN "C" ELSE char_code

\* Aac::char_mapping on the characters of Chars
char_mapping(char_code) ==
    CASE char_code = "A" -> Ok(Aac_A)
      [] char_code = "C" -> Ok(Aac_C)
      [] OTHER -> Err("InvalidCode")

\* Aac::from_char
from_char(char_code) ==
    IF ~is_ascii(char_code) THEN Err("NonAscii")
    ELSE char_mapping(to_ascii_uppercase(char_code))

\* Protein::new: the first character that fails decides the error
RECURSIVE Protein_collect(_, _, _)
Protein_collect(string, k, sequence) ==
    IF k > Len(string) THEN Ok(sequence)
    ELSE LET aminoacid == from_char(string[k])
         IN  IF aminoacid.ok
             THEN Protein_collect(string, k + 1, Append(sequence, aminoacid.value))
             ELSE aminoacid

Protein_new(string) ==
    IF Len(string) = 0 THEN Err("EmptyString")
    ELSE Protein_collect(string, 1, << >>)

\* the match on substitution_matrix and the match on algorithm
score_kind_of(substitution_matrix) ==
    CASE substitution_matrix = 1 -> Ok("Blosum45")
      [] substitution_matrix = 2 -> Ok("Blosum62")
      [] substitution_matrix = 3 -> Ok("Pam160")
      [] OTHER -> Err("ScoringMatrixNotExist")

aligner_kind_of(code) ==
    CASE code = 1 -> Ok("SmithWaterman")
      [] code = 2 -> Ok("NeedlemanWunsch")
      [] OTHER -> Err("AlignerNotExist")

\* do_protein_alignment up to the construction of the aligner: the outcome
\* is an Err, a panic, or the aligner that was built
entry_build(c) ==
    LET sequence_1 == Protein_new(c.string_1)
        sequence_2 == Protein_new(c.string_2)
        score_kind == score_kind_of(c.substitution_matrix)
        aligner_kind == aligner_kind_of(c.algorithm)
        schema == penalty_builder(PenaltyKind_Affine(c.open_cost, c.extend_cost))
    IN  IF ~sequence_1.ok THEN [outcome |-> "Err", error |-> sequence_1.kind]
        ELSE IF ~sequence_2.ok THEN [outcome |-> "Err", error |-> sequence_2.kind]
        ELSE IF ~score_kind.ok THEN [outcome |-> "Err", error |-> score_kind.kind]
        ELSE IF ~aligner_kind.ok THEN [outcome |-> "Err", error |-> aligner_kind.kind]
        ELSE IF schema.panic THEN [outcome |-> "panic"]
        ELSE [outcome |-> "built", kind |-> aligner_kind.value,
              sequence_left |-> sequence_1.value, sequence_top |-> sequence_2.value,
              penalty |-> schema.penalty]

EntryOpenCosts == {0, 2}
EntryExtendCosts == {1, 11}
EntryMatrixCodes == {0, 2}
EntryAlgorithmCodes == {0, 1, 2}

InitEntry ==
    /\ sequence_left = << >>
    /\ sequence_top = << >>
    /\ penalty_kind = Affine(10, 1)
    /\ algorithm = "do_protein_alignment"
    /\ matrix = Matrix_full(Empty, 1, 1)
    /\ global_maximum = NEG_INFINITY
    /\ maximum_indices = << >>
    /\ pc = "entry"
    /\ fill_i = 1
    /\ fill_j = 1
    /\ start_k = 1
    /\ init_cell = <<0, 0>>
    /\ cutoff_score = NEG_INFINITY
    /\ current_path = << >>
    /\ pending_stack = << >>
    /\ paths = << >>
    /\ all_paths = << >>
    /\ alignments = << >>
    /\ results = << >>
    /\ \E string_1 \in StringsUpTo(MaxEntryLen), string_2 \in StringsUpTo(MaxEntryLen),
          open_cost \in EntryOpenCosts, extend_cost \in EntryExtendCosts,
          substitution_matrix \in EntryMatrixCodes, code \in EntryAlgorithmCodes :
          call = [name |-> "do_protein_alignment",
                  string_1 |-> string_1, string_2 |-> string_2,
                  open_cost |-> open_cost, extend_cost |-> extend_cost,
                  substitution_matrix |-> substitution_matrix, algorithm |-> code,
                  outcome |-> "pending", error |-> "none"]

\* do_protein_alignment from its first line to aminoacid_align_builder
EntryBuild ==
    /\ algorithm = "do_protein_alignment"
    /\ pc = "entry"
    /\ LET b == entry_build(call)
       IN  IF b.outcome = "built"
           THEN /\ algorithm' = b.kind
                /\ sequence_left' = b.sequence_left
                /\ sequence_top' = b.sequence_top
                /\ penalty_kind' = b.penalty
                /\ matrix' = Matrix_full(Empty, 1 + Len(b.sequence_left),
                                         1 + Len(b.sequence_top))
                /\ pc' = "new"
                /\ call' = call
           ELSE /\ pc' = "exit"
                /\ call' = [call EXCEPT !.outcome = b.outcome,
                                        !.error = IF b.outcome = "Err" THEN b.error
                                                  ELSE "none"]
                /\ UNCHANGED <<inputs, matrix>>
    /\ UNCHANGED <<global_maximum, maximum_indices, fill_i, fill_j, start_k, traversal,
                   all_paths, alignments, results>>

\* the rest of do_protein_alignment: what run() gave is returned as Ok, a
\* panic inside run() ends the call
EntryReturn ==
    /\ call.name = "do_protein_alignment"
    /\ pc \in {"done", "panic"}
    /\ call' = [call EXCEPT !.outcome = IF pc = "done" THEN "Ok" ELSE "panic"]
    /\ pc' = "exit"
    /\ UNCHANGED <<inputs, matrix, global_maximum, maximum_indices, fill_i, fill_j,
                   start_k, traversal, all_paths, alignments, results>>

NextEntry ==
    \/ EntryBuild
    \/ NWInitialize
    \/ NWSolveCell
    \/ NWBacktracking
    \/ NWAlignments
    \/ SWInitialize
    \/ SWSolveCell
    \/ SWBacktracking
    \/ SWAppend
    \/ SWLongest
    \/ FindPaths
    \/ EntryReturn

SpecEntry == InitEntry /\ [][NextEntry]_vars

(***************************************************************************)
(* The pairing function on its own: duple_pairing is called on two codes.  *)
(* The codes of Aac are the discriminants 0..19; one larger value is       *)
(* offered as well, on which the u16 product overflows.  An overflow       *)
(* panics in a build with overflow checks and wraps in one without.        *)
(***************************************************************************)
AacCodes == 0..19
PairingInputs == AacCodes \cup {200}

InitPairing ==
    /\ sequence_left = << >>
    /\ sequence_top = << >>
    /\ penalty_kind = Affine(10, 1)
    /\ algorithm = "duple_pairing"
    /\ matrix = Matrix_full(Empty, 1, 1)
    /\ global_maximum = NEG_INFINITY
    /\ maximum_indices = << >>
    /\ pc = "request"
    /\ fill_i = 1
    /\ fill_j = 1
    /\ start_k = 1
    /\ init_cell = <<0, 0>>
    /\ cutoff_score = NEG_INFINITY
    /\ current_path = << >>
    /\ pending_stack = << >>
    /\ paths = << >>
    /\ all_paths = << >>
    /\ alignments = << >>
    /\ results = << >>
    /\ \E code_1 \in PairingInputs, code_2 \in PairingInputs :
          call = [name |-> "duple_pairing", code_1 |-> code_1, code_2 |-> code_2,
                  key |-> 0]

\* Aac::duple_pairing(code_1, code_2)
DuplePairing ==
    /\ algorithm = "duple_pairing"
    /\ pc = "request"
    /\ IF cantor_pairing_overflows(call.code_1, call.code_2)
       THEN \/ /\ pc' = "panic"
               /\ call' = call
            \/ /\ pc' = "paired"
               /\ call' = [call EXCEPT !.key = duple_pairing(call.code_1, call.code_2)]
       ELSE /\ pc' = "paired"
            /\ call' = [call EXCEPT !.key = duple_pairing(call.code_1, call.code_2)]
    /\ UNCHANGED <<inputs, matrix, global_maximum, maximum_indices, fill_i, fill_j,
                   start_k, traversal, all_paths, alignments, results>>

NextPairing == DuplePairing

SpecPairing == InitPairing /\ [][NextPairing]_vars

(***************************************************************************)
(* make_backtrack on its own: it is called on three candidate values.      *)
(***************************************************************************)
CandidateValues == (0 - MaxCandidate)..MaxCandidate

InitMakeBacktrack ==
    /\ sequence_left = << >>
    /\ sequence_top = << >>
    /\ penalty_kind = Affine(10, 1)
    /\ algorithm = "make_backtrack"
    /\ matrix = Matrix_full(Empty, 1, 1)
    /\ global_maximum = NEG_INFINITY
    /\ maximum_indices = << >>
    /\ pc = "request"
    /\ fill_i = 1
    /\ fill_j = 1
    /\ start_k = 1
    /\ init_cell = <<0, 0>>
    /\ cutoff_score = NEG_INFINITY
    /\ current_path = << >>
    /\ pending_stack = << >>
    /\ paths = << >>
    /\ all_paths = << >>
    /\ alignments = << >>
    /\ results = << >>
    /\ \E top_v \in CandidateValues, diagonal_v \in CandidateValues,
          left_v \in CandidateValues :
          call = [name |-> "make_backtrack", top |-> top_v, diagonal |-> diagonal_v,
                  left |-> left_v, backtrack |-> Empty, score |-> 0]

\* BackTrack::make_backtrack(top, diagonal, left)
MakeBacktrack ==
    /\ algorithm = "make_backtrack"
    /\ pc = "request"
    /\ LET made == make_backtrack(call.top, call.diagonal, call.left)
       IN  call' = [call EXCEPT !.backtrack = made.backtrack, !.score = made.score]
    /\ pc' = "made"
    /\ UNCHANGED <<inputs, matrix, global_maximum, maximum_indices, fill_i, fill_j,
                   start_k, traversal, all_paths, alignments, results>>

NextMakeBacktrack == MakeBacktrack

SpecMakeBacktrack == InitMakeBacktrack /\ [][NextMakeBacktrack]_vars

(***************************************************************************)
(* AlignmentSequence::new on its own: it is called on any sequence of      *)
(* coordinates of a 3x3 matrix, well formed or not, and two sequences of   *)
(* up to two symbols.                                                      *)
(***************************************************************************)
PathCoordinates == {<<row, col>> : row \in 0..2, col \in 0..2}
PathsUpTo(n) == UNION {[1..k -> PathCoordinates] : k \in 0..n}

InitReconstruct ==
    /\ sequence_left \in SeqsUpTo(2)
    /\ sequence_top \in SeqsUpTo(2)
    /\ penalty_kind = Affine(10, 1)
    /\ algorithm = "AlignmentSequence"
    /\ matrix = Matrix_full(Empty, 1, 1)
    /\ global_maximum = NEG_INFINITY
    /\ maximum_indices = << >>
    /\ pc = "request"
    /\ fill_i = 1
    /\ fill_j = 1
    /\ start_k = 1
    /\ init_cell = <<0, 0>>
    /\ cutoff_score = NEG_INFINITY
    /\ current_path = << >>
    /\ pending_stack = << >>
    /\ paths = << >>
    /\ all_paths = << >>
    /\ alignments = << >>
    /\ results = << >>
    /\ \E backtrack_path \in PathsUpTo(MaxPathLen) :
          call = [name |-> "AlignmentSequence::new", backtrack_path |-> backtrack_path,
                  pairs |-> << >>]

\* AlignmentSequence::new(backtrack_path, sequence_left, sequence_top)
Reconstruct ==
    /\ algorithm = "AlignmentSequence"
    /\ pc = "request"
    /\ LET built == AlignmentSequence_new(call.backtrack_path, sequence_left,
                                          sequence_top)
       IN  IF built.ok
           THEN /\ pc' = "built"
                /\ call' = [call EXCEPT !.pairs = built.pairs]
           ELSE /\ pc' = "panic"
                /\ call' = call
    /\ UNCHANGED <<inputs, matrix, global_maximum, maximum_indices, fill_i, fill_j,
                   start_k, traversal, all_paths, alignments, results>>

NextReconstruct == Reconstruct

SpecReconstruct == InitReconstruct /\ [][NextReconstruct]_vars

(***************************************************************************)
(* The fill in any order.  The repository fills row by row; here the loop  *)
(* body of solve_subproblems is run by writers that may take any interior  *)
(* cell whose three dependencies are written, several at a time: a writer  *)
(* first reads the neighbours and computes the cell, and writes it in a    *)
(* later step.  call.in_flight holds the cells computed and not yet        *)
(* written, call.order the cells in the order they were written.           *)
(***************************************************************************)
InitWavefront ==
    /\ sequence_left \in SeqsUpTo(MaxWaveLen)
    /\ sequence_top \in SeqsUpTo(MaxWaveLen)
    /\ penalty_kind \in Penalties
    /\ algorithm \in {"NeedlemanWunsch", "SmithWaterman"}
    /\ matrix = Matrix_full(Empty, 1 + Len(sequence_left), 1 + Len(sequence_top))
    /\ global_maximum = NEG_INFINITY
    /\ maximum_indices = << >>
    /\ pc = "new"
    /\ fill_i = 1
    /\ fill_j = 1
    /\ start_k = 1
    /\ init_cell = <<0, 0>>
    /\ cutoff_score = NEG_INFINITY
    /\ current_path = << >>
    /\ pending_stack = << >>
    /\ paths = << >>
    /\ all_paths = << >>
    /\ alignments = << >>
    /\ results = << >>
    /\ call = [name |-> "wavefront", in_flight |-> {}, order |-> << >>]

InFlightCells == {w.cell : w \in call.in_flight}

\* a writer takes cell (i, j): it reads the three neighbours and computes
WriterReads(i, j) ==
    /\ call.name = "wavefront"
    /\ pc = "solve"
    /\ i < matrix.rows /\ j < matrix.cols
    /\ index(matrix, i, j).ind = 0
    /\ <<i, j>> \notin InFlightCells
    /\ NeighboursNonEmpty(matrix, i, j)
    /\ LET computed ==
              IF algorithm = "NeedlemanWunsch"
              THEN NW_solve_cell(matrix, sequence_left, sequence_top, penalty_kind, i, j)
              ELSE SW_solve_cell([matrix |-> matrix, global_maximum |-> global_maximum,
                                  maximum_indices |-> maximum_indices],
                                 sequence_left, sequence_top, penalty_kind, i, j).matrix
       IN  call' = [call EXCEPT !.in_flight =
                       @ \cup {[cell |-> <<i, j>>, backtrack |-> index(computed, i, j)]}]
    /\ UNCHANGED <<inputs, matrix, global_maximum, maximum_indices, pc, fill_i, fill_j,
                   start_k, traversal, all_paths, alignments, results>>

\* the writer of cell (i, j) writes what it computed; the Local solver
\* records the maximum with the write
WriterWrites(i, j) ==
    /\ call.name = "wavefront"
    /\ pc = "solve"
    /\ \E w \in call.in_flight :
          /\ w.cell = <<i, j>>
          /\ matrix' = index_mut(matrix, i, j, w.backtrack)
          /\ call' = [call EXCEPT !.in_flight = @ \ {w},
                                  !.order = Append(@, <<i, j>>)]
          /\ IF algorithm = "SmithWaterman"
             THEN LET upd == update_maximum_entries(global_maximum, maximum_indices,
                                                    w.backtrack.score, i, j)
                  IN  /\ global_maximum' = upd.global_maximum
                      /\ maximum_indices' = upd.maximum_indices
             ELSE UNCHANGED <<global_maximum, maximum_indices>>
    /\ pc' = IF Len(call.order) + 1 = (matrix.rows - 1) * (matrix.cols - 1)
             THEN "solved" ELSE "solve"
    /\ UNCHANGED <<inputs, fill_i, fill_j, start_k, traversal, all_paths, alignments,
                   results>>

NextWavefront ==
    \/ NWInitialize
    \/ SWInitialize
    \/ \E i \in 1..MaxWaveLen, j \in 1..MaxWaveLen : WriterReads(i, j)
    \/ \E i \in 1..MaxWaveLen, j \in 1..MaxWaveLen : WriterWrites(i, j)

SpecWavefront == InitWavefront /\ [][NextWavefront]_vars

(***************************************************************************)
(* BackTrack::backtracking on a matrix filled by one of the solvers, from  *)
(* any start cell of it, without cutoff or with the cutoff 0 of the local  *)
(* solver.  The traversal runs to its return: it is one sequential call,   *)
(* so a step that can be taken is taken.                                   *)
(***************************************************************************)
\* the matrix after initialize() and solve_subproblems() of the solver
filled_matrix(solver, left, top, p) ==
    LET fresh == Matrix_full(Empty, 1 + Len(left), 1 + Len(top))
    IN  IF solver = "NeedlemanWunsch"
        THEN LET initialized == NW_initialize(fresh, p)
             IN  IF LoopEmpty(initialized) THEN initialized
                 ELSE NW_solve_subproblems(initialized, left, top, p, 1, 1).matrix
        ELSE LET initialized == SW_initialize(fresh)
             IN  IF LoopEmpty(initialized) THEN initialized
                 ELSE SW_solve_subproblems([matrix |-> initialized,
                                            global_maximum |-> NEG_INFINITY,
                                            maximum_indices |-> << >>],
                                           left, top, p, 1, 1).matrix

InitTraversal ==
    /\ sequence_left \in SeqsUpTo(MaxTermLen)
    /\ sequence_top \in SeqsUpTo(MaxTermLen)
    /\ penalty_kind \in Penalties
    /\ algorithm = "Backtracking"
    /\ \E solver \in {"NeedlemanWunsch", "SmithWaterman"} :
          /\ call = [name |-> "backtracking", solver |-> solver]
          /\ matrix = filled_matrix(solver, sequence_left, sequence_top, penalty_kind)
    /\ \E init_row \in 0..Len(sequence_left), init_col \in 0..Len(sequence_top) :
          /\ init_cell = <<init_row, init_col>>
          /\ current_path = << <<init_row, init_col>> >>
    /\ cutoff_score \in {NEG_INFINITY, 0}
    /\ global_maximum = NEG_INFINITY
    /\ maximum_indices = << >>
    /\ pc = "find_paths"
    /\ fill_i = 1
    /\ fill_j = 1
    /\ start_k = 1
    /\ pending_stack = << >>
    /\ paths = << >>
    /\ all_paths = << >>
    /\ alignments = << >>
    /\ results = << >>

SpecTraversal == InitTraversal /\ [][NextBT]_vars /\ WF_vars(FindPaths)

(***************************************************************************)
(* Reference definitions for the properties.                               *)
(***************************************************************************)
\* the cells a direction set points to
Predecessors(ind, r, c) ==
    (IF HasT(ind) THEN {<<r - 1, c>>} ELSE {})
    \cup (IF HasD(ind) THEN {<<r - 1, c - 1>>} ELSE {})
    \cup (IF HasL(ind) THEN {<<r, c - 1>>} ELSE {})

\* the coordinate paths that begin at (r, c), follow at every cell one of the
\* directions recorded in it, and end at (0,0) or at a cell of score <= cutoff
RECURSIVE DirectedPaths(_, _, _, _)
DirectedPaths(m, r, c, cutoff) ==
    LET cell == index(m, r, c)
    IN  IF (r = 0 /\ c = 0) \/ (cell.ind # 0 /\ cell.score <= cutoff)
        THEN {<< <<r, c>> >>}
        ELSE UNION {{<< <<r, c>> >> \o q : q \in DirectedPaths(m, pr[1], pr[2], cutoff)} :
                       pr \in {x \in Predecessors(cell.ind, r, c) :
                                  InDimension(m, x[1], x[2])}}

Range(s) == {s[k] : k \in 1..Len(s)}

Interior(m) == {<<i, j>> : i \in 1..(m.rows - 1), j \in 1..(m.cols - 1)}

\* the interior cells that hold the largest interior score
MaxCells(m) ==
    {c \in Interior(m) :
        \A d \in Interior(m) : index(m, c[1], c[2]).score >= index(m, d[1], d[2]).score}

\* Global: from the terminal cell to (0,0); Local: from every maximum-score
\* cell down to the first cell of score <= 0
OptimalPaths ==
    IF algorithm = "NeedlemanWunsch"
    THEN DirectedPaths(matrix, matrix.rows - 1, matrix.cols - 1, NEG_INFINITY)
    ELSE UNION {DirectedPaths(matrix, c[1], c[2], 0) : c \in MaxCells(matrix)}

PairsOf(path) == AlignmentSequence_new(path, sequence_left, sequence_top).pairs

(***************************************************************************)
(* C2 (as stated): in both modes run() returns one alignment for every     *)
(* distinct optimal coordinate path.                                       *)
(***************************************************************************)
C2_OneAlignmentPerOptimalPath ==
    pc = "done" =>
        /\ Len(alignments) = Cardinality(OptimalPaths)
        /\ Range(alignments) = {PairsOf(q) : q \in OptimalPaths}

(***************************************************************************)
(* C2 (amended): in Global mode run() returns one alignment for every      *)
(* optimal coordinate path from the terminal cell; in Local mode, when it  *)
(* returns, it returns exactly one alignment, that of a longest path among *)
(* the optimal paths from the maximum-score cells.                         *)
(***************************************************************************)
C2_GlobalAllLocalLongest ==
    pc = "done" =>
        IF algorithm = "NeedlemanWunsch"
        THEN /\ Len(alignments) = Cardinality(OptimalPaths)
             /\ Range(alignments) = {PairsOf(q) : q \in OptimalPaths}
        ELSE /\ Len(alignments) = 1
             /\ \E q \in OptimalPaths :
                   /\ alignments[1] = PairsOf(q)
                   /\ \A o \in OptimalPaths : Len(o) <= Len(q)

\* a Local run that finished with optimal paths of different lengths
C2_Witness ==
    /\ pc = "done"
    /\ algorithm = "SmithWaterman"
    /\ \E q \in OptimalPaths, o \in OptimalPaths : Len(q) < Len(o)

(***************************************************************************)
(* Reference: the optimal global score by the three-state affine           *)
(* recurrence.  State "M" ends in a two-symbol column, "X" in a gap in the *)
(* top sequence (a vertical step), "Y" in a gap in the left sequence       *)
(* (a horizontal step).  A gap run of length L costs function(L): its      *)
(* first column costs function(1), every further one function(2) -         *)
(* function(1).  A state that no alignment ends in has the empty set.      *)
(***************************************************************************)
SetMax(S) == CHOOSE x \in S : \A y \in S : x >= y
MaxSet(S) == IF S = {} THEN {} ELSE {SetMax(S)}

RECURSIVE RefState(_, _, _, _, _, _)
RefState(S, T, p, i, j, st) ==
    LET step == function(p, 2) - function(p, 1)
        any(a, b) == RefState(S, T, p, a, b, "M") \cup RefState(S, T, p, a, b, "X")
                     \cup RefState(S, T, p, a, b, "Y")
    IN  IF i = 0 /\ j = 0 THEN (IF st = "M" THEN {0} ELSE {})
        ELSE IF st = "M"
        THEN IF i = 0 \/ j = 0 THEN {}
             ELSE MaxSet({v + get_score(S[i], T[j]) : v \in any(i - 1, j - 1)})
        ELSE IF st = "X"
        THEN IF i = 0 THEN {}
             ELSE MaxSet({v - function(p, 1) :
                             v \in RefState(S, T, p, i - 1, j, "M")
                                   \cup RefState(S, T, p, i - 1, j, "Y")}
                         \cup {v - step : v \in RefState(S, T, p, i - 1, j, "X")})
        ELSE IF j = 0 THEN {}
             ELSE MaxSet({v - function(p, 1) :
                             v \in RefState(S, T, p, i, j - 1, "M")
                                   \cup RefState(S, T, p, i, j - 1, "X")}
                         \cup {v - step : v \in RefState(S, T, p, i, j - 1, "Y")})

RefOptimalGlobal(S, T, p) ==
    SetMax(RefState(S, T, p, Len(S), Len(T), "M")
           \cup RefState(S, T, p, Len(S), Len(T), "X")
           \cup RefState(S, T, p, Len(S), Len(T), "Y"))

Filled == pc \in {"solved", "find_paths", "returned", "done"}

(***************************************************************************)
(* C3: the score the Global solver stores in cell (|S|,|T|) is the optimal *)
(* global alignment score of the reference three-state recurrence.         *)
(***************************************************************************)
C3_GlobalScoreIsOptimal ==
    (algorithm = "NeedlemanWunsch" /\ Filled) =>
        index(matrix, Len(sequence_left), Len(sequence_top)).score
            = RefOptimalGlobal(sequence_left, sequence_top, penalty_kind)

(***************************************************************************)
(* Reference: the score of an alignment, from its pairs alone.             *)
(***************************************************************************)
GapKind(pair) ==
    IF pair[1] = None THEN "left" ELSE IF pair[2] = None THEN "top" ELSE "none"

\* the length of the maximal gap run that starts at column k
RunLength(pairs, k) ==
    CHOOSE n \in 1..(Len(pairs) - k + 1) :
        /\ \A x \in k..(k + n - 1) : GapKind(pairs[x]) = GapKind(pairs[k])
        /\ (k + n > Len(pairs) \/ GapKind(pairs[k + n]) # GapKind(pairs[k]))

ColumnScore(pairs, k, p) ==
    IF GapKind(pairs[k]) = "none" THEN get_score(pairs[k][1][1], pairs[k][2][1])
    ELSE IF k = 1 \/ GapKind(pairs[k - 1]) # GapKind(pairs[k])
    THEN 0 - function(p, RunLength(pairs, k))
    ELSE 0

RECURSIVE SumColumns(_, _, _)
SumColumns(pairs, k, p) ==
    IF k > Len(pairs) THEN 0
    ELSE ColumnScore(pairs, k, p) + SumColumns(pairs, k + 1, p)

Rescore(pairs, p) == SumColumns(pairs, 1, p)

\* the coordinate path the k-th returned alignment was built from
PathOfAlignment(k) ==
    IF algorithm = "NeedlemanWunsch" THEN all_paths[k]
    ELSE reduce_longest(Head(all_paths), Tail(all_paths))

(***************************************************************************)
(* C4: for every alignment run() returned, the substitution scores of its  *)
(* two-symbol columns minus function(length) of each maximal gap run equal *)
(* the score in the cell its coordinate path starts at.                    *)
(***************************************************************************)
C4_RescoreEqualsStartCell ==
    pc = "done" =>
        \A k \in 1..Len(alignments) :
            LET start == PathOfAlignment(k)[1]
            IN  Rescore(alignments[k], penalty_kind)
                    = index(matrix, start[1], start[2]).score

(***************************************************************************)
(* C5: get_extend() returns the extend parameter of the gap model and      *)
(* get_open() the open parameter.                                          *)
(***************************************************************************)
C5_GettersReturnTheirParameter ==
    /\ get_extend(penalty_kind) = extend(penalty_kind)
    /\ get_open(penalty_kind) = open(penalty_kind)

(***************************************************************************)
(* C6: Global mode, affine cost (open, extend), an empty left sequence and *)
(* a top sequence of length n >= 1: run() does not abort and yields        *)
(* exactly one alignment, the n pairs (None, Some(t_k)) for k = 1..n in    *)
(* that order; its path starts at (0, n), whose score is                   *)
(* -(open + extend * n).                                                   *)
(***************************************************************************)
C6_EmptyLeftGlobalAffine ==
    (/\ algorithm = "NeedlemanWunsch"
     /\ penalty_kind.kind = "Affine"
     /\ sequence_left = << >>
     /\ Len(sequence_top) >= 1) =>
        LET n == Len(sequence_top)
        IN  /\ pc # "panic"
            /\ pc = "done" =>
                  /\ Len(alignments) = 1
                  /\ alignments[1] = [k \in 1..n |-> <<None, Some(sequence_top[k])>>]
                  /\ all_paths[1][1] = <<0, n>>
                  /\ index(matrix, 0, n).score
                        = 0 - (penalty_kind.open_cost + (penalty_kind.extend_cost * n))

\* a finished Global affine run on an empty left sequence and two different
\* top symbols
C6_Witness ==
    /\ algorithm = "NeedlemanWunsch"
    /\ penalty_kind.kind = "Affine"
    /\ pc = "done"
    /\ sequence_left = << >>
    /\ Len(sequence_top) >= 2
    /\ sequence_top[1] # sequence_top[2]

(***************************************************************************)
(* C7: for any two sequences, zero-length ones included, and either mode,  *)
(* run() does not abort and what it returns is a non-empty collection of   *)
(* alignments.                                                             *)
(***************************************************************************)
C7_RunNeverAborts ==
    /\ pc # "panic"
    /\ pc = "done" => Len(alignments) >= 1

(***************************************************************************)
(* C8 (as stated): every alignment run() returns, in either mode, has      *)
(* between max(|S|,|T|) and |S|+|T| pairs.                                 *)
(***************************************************************************)
C8_LengthBounds ==
    pc = "done" =>
        \A k \in 1..Len(alignments) :
            /\ Len(alignments[k]) >= Max(Len(sequence_left), Len(sequence_top))
            /\ Len(alignments[k]) <= Len(sequence_left) + Len(sequence_top)

(***************************************************************************)
(* C8 (amended): every alignment a Global run returns has between          *)
(* max(|S|,|T|) and |S|+|T| pairs; the alignment a Local run returns has   *)
(* at most r + c pairs, (r, c) being the maximum-score cell its path       *)
(* starts at, hence at most |S|+|T|, and it has no lower bound other than  *)
(* zero.                                                                   *)
(***************************************************************************)
C8_LengthBoundsGlobalOnly ==
    pc = "done" =>
        \A k \in 1..Len(alignments) :
            IF algorithm = "NeedlemanWunsch"
            THEN /\ Len(alignments[k]) >= Max(Len(sequence_left), Len(sequence_top))
                 /\ Len(alignments[k]) <= Len(sequence_left) + Len(sequence_top)
            ELSE LET start == PathOfAlignment(k)[1]
                 IN  /\ Len(alignments[k]) >= 0
                     /\ Len(alignments[k]) <= start[1] + start[2]
                     /\ start[1] <= Len(sequence_left)
                     /\ start[2] <= Len(sequence_top)

\* a Local run that returned an alignment without pairs for two non-empty
\* sequences
C8_Witness ==
    /\ pc = "done"
    /\ algorithm = "SmithWaterman"
    /\ Len(sequence_left) >= 2
    /\ Len(sequence_top) >= 1
    /\ Len(alignments) = 1
    /\ Len(alignments[1]) = 0

(***************************************************************************)
(* Reference: the run on the swapped inputs, and the mirror of an          *)
(* alignment.                                                              *)
(***************************************************************************)
Mirror(pairs) == [k \in 1..Len(pairs) |-> <<pairs[k][2], pairs[k][1]>>]

Swapped ==
    IF algorithm = "NeedlemanWunsch"
    THEN NW_run(sequence_top, sequence_left, penalty_kind)
    ELSE SW_run(sequence_top, sequence_left, penalty_kind)

\* the optimal score of the run in progress
OptimalScore ==
    IF algorithm = "NeedlemanWunsch"
    THEN index(matrix, Len(sequence_left), Len(sequence_top)).score
    ELSE global_maximum

(***************************************************************************)
(* C9 (as stated): aligning (T,S) in the same mode gives the same optimal  *)
(* score as aligning (S,T), and returns exactly the alignments returned    *)
(* for (S,T) with the two sides of every pair swapped (compared as         *)
(* collections, not by position).                                          *)
(***************************************************************************)
C9_SwappedRunIsMirror ==
    pc = "done" =>
        /\ Swapped.ok
        /\ Swapped.score = OptimalScore
        /\ Len(Swapped.alignments) = Len(alignments)
        /\ Range(Swapped.alignments) = {Mirror(a) : a \in Range(alignments)}

(***************************************************************************)
(* C9 (amended): when run() returns for (S,T), it returns for (T,S) with   *)
(* the same optimal score.  In Global mode the alignments returned for     *)
(* (T,S) are exactly the mirrors of those returned for (S,T).  In Local    *)
(* mode the single alignment returned for (T,S) is the mirror of the       *)
(* alignment of one of the longest optimal paths of (S,T), which need not  *)
(* be the one returned for (S,T).                                          *)
(***************************************************************************)
C9_SwappedScoreAndGlobalMirror ==
    pc = "done" =>
        /\ Swapped.ok
        /\ Swapped.score = OptimalScore
        /\ Len(Swapped.alignments) = Len(alignments)
        /\ IF algorithm = "NeedlemanWunsch"
           THEN Range(Swapped.alignments) = {Mirror(a) : a \in Range(alignments)}
           ELSE \E q \in OptimalPaths :
                   /\ Swapped.alignments[1] = Mirror(PairsOf(q))
                   /\ \A o \in OptimalPaths : Len(o) <= Len(q)

\* a Local run whose alignment is not the mirror of the one returned for the
\* swapped inputs
C9_Witness ==
    /\ pc = "done"
    /\ algorithm = "SmithWaterman"
    /\ Swapped.ok
    /\ Swapped.alignments[1] # Mirror(alignments[1])

(***************************************************************************)
(* C10: after the Local fill every cell of the matrix has a score >= 0 and *)
(* the optimal score the solver tracks (global_maximum) is >= 0.           *)
(***************************************************************************)
C10_LocalNonNegative ==
    (algorithm = "SmithWaterman" /\ Filled) =>
        /\ \A k \in DOMAIN matrix.container : matrix.container[k].score >= 0
        /\ global_maximum >= 0

(***************************************************************************)
(* Reference: the run of a fresh aligner instance on the same inputs.      *)
(***************************************************************************)
FreshRun ==
    IF algorithm = "NeedlemanWunsch"
    THEN NW_run(sequence_left, sequence_top, penalty_kind)
    ELSE SW_run(sequence_left, sequence_top, penalty_kind)

(***************************************************************************)
(* C11: a run on identical inputs returns the identical set of alignments, *)
(* whether it is a run of a fresh instance or a further call of run() on   *)
(* the same instance; a further call does not abort.                       *)
(***************************************************************************)
C11_RepeatedRunsSameSet ==
    /\ (algorithm # "Backtracking" /\ Len(results) >= 1) => pc # "panic"
    /\ (algorithm # "Backtracking" /\ pc = "done") =>
          /\ FreshRun.ok
          /\ Range(FreshRun.alignments) = Range(alignments)
          /\ \A k \in 1..Len(results) : Range(results[k]) = Range(alignments)

\* a second Local run on an instance whose maximum_indices still holds the
\* entries of the first run, and a second Global run with several alignments
C11_Witness ==
    /\ pc = "done"
    /\ Len(results) >= 1
    /\ \/ /\ algorithm = "SmithWaterman"
          /\ Len(maximum_indices) >= 4
          /\ Len(all_paths) >= 4
       \/ /\ algorithm = "NeedlemanWunsch"
          /\ Len(alignments) >= 3

(***************************************************************************)
(* Reference: the cells a traversal has inspected so far are the cells of  *)
(* the finished paths and of the current path but its last.                *)
(***************************************************************************)
IsEmptyAt(m, cell) == InDimension(m, cell[1], cell[2]) /\ index(m, cell[1], cell[2]).ind = 0

InspectedCells ==
    UNION {Range(paths[k]) : k \in 1..Len(paths)}
    \cup {current_path[x] : x \in 1..(Len(current_path) - 1)}

(***************************************************************************)
(* C12: a traversal that has inspected an Empty cell, be it the start      *)
(* cell, an intermediate cell or the cell (0,0), has aborted: no traversal *)
(* that is still going on or has returned has inspected an Empty cell.     *)
(***************************************************************************)
C12_EmptyCellAborts ==
    (algorithm = "Backtracking" /\ pc \in {"find_paths", "returned"}) =>
        \A cell \in InspectedCells : ~IsEmptyAt(matrix, cell)

(***************************************************************************)
(* Reference: a well-formed coordinate path.                               *)
(***************************************************************************)
UnitStep(from, to) ==
    <<from[1] - to[1], from[2] - to[2]>> \in {<<1, 1>>, <<1, 0>>, <<0, 1>>}

WellFormedPath(m, path, start) ==
    /\ Len(path) >= 1
    /\ path[1] = start
    /\ \A x \in 1..Len(path) : InDimension(m, path[x][1], path[x][2])
    /\ \A x \in 1..(Len(path) - 1) : UnitStep(path[x], path[x + 1])

\* the cells run() starts a traversal from
StartCells ==
    IF algorithm = "NeedlemanWunsch"
    THEN {<<matrix.rows - 1, matrix.cols - 1>>}
    ELSE Range(maximum_indices)

(***************************************************************************)
(* C13: on a matrix filled by the Global or the Local solver every path of *)
(* a traversal (emitted, in progress or pending) starts at the requested   *)
(* start cell, stays inside the matrix and moves by (-1,-1), (-1,0) or     *)
(* (0,-1) at every step; the border cells of row 0 point Horizontal only   *)
(* and those of column 0 Vertical only.                                    *)
(***************************************************************************)
C13_PathsAreUnitStepPaths ==
    algorithm # "Backtracking" =>
        /\ pc \in {"find_paths", "returned"} =>
              /\ init_cell \in StartCells
              /\ WellFormedPath(matrix, current_path, init_cell)
              /\ \A k \in 1..Len(paths) : WellFormedPath(matrix, paths[k], init_cell)
              /\ \A k \in 1..Len(pending_stack) :
                    WellFormedPath(matrix, pending_stack[k], init_cell)
        /\ \A k \in 1..Len(all_paths) :
              /\ all_paths[k][1] \in StartCells
              /\ WellFormedPath(matrix, all_paths[k], all_paths[k][1])
        /\ Filled =>
              /\ \A j \in 1..(matrix.cols - 1) : index(matrix, 0, j).ind = 4
              /\ \A i \in 1..(matrix.rows - 1) : index(matrix, i, 0).ind = 1

\* a Global traversal that returned several paths, one of which runs along
\* row 0 and another along column 0
C13_Witness ==
    /\ algorithm = "NeedlemanWunsch"
    /\ pc = "returned"
    /\ Len(paths) >= 2
    /\ \E k \in 1..Len(paths) : <<0, 1>> \in Range(paths[k])
    /\ \E k \in 1..Len(paths) : <<1, 0>> \in Range(paths[k])

(***************************************************************************)
(* C14: get(row, col) and get_mut(row, col) return an OutOfDimension error *)
(* carrying the attempted index and the dimension exactly when             *)
(* row >= rows or col >= cols; on a filled matrix every in-range index     *)
(* gives the element stored at that position, which is the value last      *)
(* written there; the dimension never changes after construction.          *)
(***************************************************************************)
C14_GetOutOfDimension ==
    /\ [](algorithm = "Matrix" =>
            \A row \in 0..(MaxMatrixDim + 1), col \in 0..(MaxMatrixDim + 1) :
                LET out == OutOfDimension(<<row, col>>, <<matrix.rows, matrix.cols>>)
                    filled == Len(matrix.container) >= matrix.rows * matrix.cols
                IN  /\ (row >= matrix.rows \/ col >= matrix.cols)
                          <=> get(matrix, row, col) = Err(out)
                    /\ (row >= matrix.rows \/ col >= matrix.cols)
                          <=> get_mut(matrix, row, col) = Err(out)
                    /\ (filled /\ row < matrix.rows /\ col < matrix.cols) =>
                          /\ get(matrix, row, col)
                                = Ok(matrix.container[(row * matrix.cols) + col + 1])
                          /\ get_mut(matrix, row, col) = get(matrix, row, col))
    /\ [][algorithm = "Matrix" =>
            /\ matrix'.rows = matrix.rows
            /\ matrix'.cols = matrix.cols
            /\ \A row \in 0..(matrix.rows - 1), col \in 0..(matrix.cols - 1),
                  value \in MatrixValues :
                  (get_mut(matrix, row, col).ok /\ MatrixWrite(row, col, value)) =>
                      /\ get(matrix', row, col) = Ok(value)
                      /\ \A r \in 0..(matrix.rows - 1), c \in 0..(matrix.cols - 1) :
                            <<r, c>> # <<row, col>> =>
                                get(matrix', r, c) = get(matrix, r, c)]_vars

\* a filled 2 x 2 matrix that holds both values
C14_Witness ==
    /\ algorithm = "Matrix"
    /\ matrix.rows = 2
    /\ matrix.cols = 2
    /\ Len(matrix.container) = 4
    /\ matrix.container[1] # matrix.container[4]
    /\ ~get(matrix, 1, 2).ok

(***************************************************************************)
(* C15: an Affine penalty is built exactly when open is in [1,100] and     *)
(* extend in [0,10], a Linear one exactly when extend is in [0,10];        *)
(* otherwise the construction fails.  A penalty that is built stores the   *)
(* parameters unchanged.  function(0) fails, function(length >= 1) gives   *)
(* open + extend * length.                                                 *)
(***************************************************************************)
C15_ConfigurationErrorsRejected ==
    algorithm = "Penalty" =>
        LET kind == call.kind
            extend_ok == 0 <= kind.extend_cost /\ kind.extend_cost <= 10
            in_range == IF kind.name = "Affine"
                        THEN 1 <= kind.open_cost /\ kind.open_cost <= 100 /\ extend_ok
                        ELSE extend_ok
            was_built == pc \in {"built", "evaluated"} \/ (pc = "panic" /\ call.length >= 0)
        IN  /\ pc # "request" => (was_built <=> in_range)
            /\ was_built =>
                  /\ penalty_kind.kind = kind.name
                  /\ extend(penalty_kind) = kind.extend_cost
                  /\ open(penalty_kind) = IF kind.name = "Affine" THEN kind.open_cost ELSE 0
            /\ pc = "evaluated" =>
                  /\ call.length >= 1
                  /\ call.value = open(penalty_kind) + (extend(penalty_kind) * call.length)
            /\ (pc = "panic" /\ call.length >= 0) => call.length = 0

\* an Affine penalty with both costs at the upper end of their range was
\* built and its function failed at length 0
C15_Witness ==
    /\ algorithm = "Penalty"
    /\ pc = "panic"
    /\ call.length = 0
    /\ call.kind = PenaltyKind_Affine(100, 10)

(***************************************************************************)
(* C16: when do_protein_alignment is called with an open cost outside      *)
(* [1,100] or an extend cost outside [0,10], the call ends with an Err     *)
(* result, as it does for an invalid sequence or an unknown code; it never *)
(* ends with a panic.                                                      *)
(***************************************************************************)
C16_BadGapCostsReturnErr ==
    (/\ call.name = "do_protein_alignment"
     /\ pc = "exit"
     /\ \/ call.open_cost < 1 \/ call.open_cost > 100
        \/ call.extend_cost < 0 \/ call.extend_cost > 10)
    => call.outcome = "Err"

(***************************************************************************)
(* C17: for every ordered pair (a, b) of amino-acid codes 0..19 the        *)
(* pairing returns (a+b)(a+b+1)/2 + b, no other ordered pair of codes has  *)
(* the same key, no u16 operation overflows, and no key exceeds 760.       *)
(***************************************************************************)
C17_PairingExactInjectiveNoOverflow ==
    (/\ algorithm = "duple_pairing"
     /\ pc # "request"
     /\ call.code_1 \in 0..19
     /\ call.code_2 \in 0..19)
    => LET a == call.code_1
           b == call.code_2
       IN  /\ pc = "paired"
           /\ call.key = (((a + b) * (a + b + 1)) \div 2) + b
           /\ call.key <= 760
           /\ ~cantor_pairing_overflows(a, b)
           /\ \A c \in 0..19, d \in 0..19 :
                 duple_pairing(c, d) = call.key => (c = a /\ d = b)

\* the pair (Y, Y) was paired and got the largest key
C17_Witness ==
    /\ algorithm = "duple_pairing"
    /\ pc = "paired"
    /\ call.code_1 = 19
    /\ call.code_2 = 19
    /\ call.key = 760

(***************************************************************************)
(* C18: when SmithWaterman::run returns, its one alignment is that of a    *)
(* path it found whose first coordinate holds the largest score of the     *)
(* whole matrix, which is global_maximum, and neither a path it found nor  *)
(* any direction-following path from a cell of that score down to the      *)
(* first cell of score <= 0 is longer.                                     *)
(***************************************************************************)
AllCells(m) == {<<i, j>> : i \in 0..(m.rows - 1), j \in 0..(m.cols - 1)}

C18_LocalReturnsLongestBest ==
    (pc = "done" /\ algorithm = "SmithWaterman") =>
        \E k \in 1..Len(all_paths) :
            LET q == all_paths[k]
                start == index(matrix, q[1][1], q[1][2]).score
                best == {c \in AllCells(matrix) :
                            index(matrix, c[1], c[2]).score = start}
            IN  /\ alignments = << PairsOf(q) >>
                /\ start = global_maximum
                /\ \A c \in AllCells(matrix) : index(matrix, c[1], c[2]).score <= start
                /\ \A n \in 1..Len(all_paths) : Len(all_paths[n]) <= Len(q)
                /\ \A c \in best \cap Interior(matrix) :
                      \A o \in DirectedPaths(matrix, c[1], c[2], 0) : Len(o) <= Len(q)

\* a Local run returned after it had found paths from two different
\* maximum-score cells, a shorter one first and a longer one later
C18_Witness ==
    /\ pc = "done"
    /\ algorithm = "SmithWaterman"
    /\ \E k \in 1..Len(all_paths), n \in 1..Len(all_paths) :
          /\ k < n
          /\ all_paths[k][1] # all_paths[n][1]
          /\ Len(all_paths[k]) < Len(all_paths[n])
          /\ alignments = << PairsOf(all_paths[n]) >>

(***************************************************************************)
(* C19: for the interior cell (i, j) that the fill is about to compute,    *)
(* the vertical candidate is the score of cell (i-1, j) minus the extend   *)
(* cost when that cell's directions contain top, and minus function(1)     *)
(* otherwise; the horizontal candidate is the same rule on cell (i, j-1)   *)
(* and left; the diagonal candidate is the score of cell (i-1, j-1) plus   *)
(* the substitution score of the two symbols.                              *)
(***************************************************************************)
C19_CandidatesFollowTheRule ==
    (pc = "solve" /\ NeighboursNonEmpty(matrix, fill_i, fill_j)) =>
        LET above == index(matrix, fill_i - 1, fill_j)
            before == index(matrix, fill_i, fill_j - 1)
            corner == index(matrix, fill_i - 1, fill_j - 1)
            vertical == IF HasT(above.ind)
                        THEN above.score - extend(penalty_kind)
                        ELSE above.score - function(penalty_kind, 1)
            horizontal == IF HasL(before.ind)
                          THEN before.score - extend(penalty_kind)
                          ELSE before.score - function(penalty_kind, 1)
            diagonal == corner.score
                        + search(BLOSUM62, sequence_left[fill_i], sequence_top[fill_j])
        IN  IF algorithm = "NeedlemanWunsch"
            THEN /\ NW_top_score(penalty_kind, matrix, fill_i, fill_j) = vertical
                 /\ NW_left_score(penalty_kind, matrix, fill_i, fill_j) = horizontal
                 /\ NW_diagonal_score(sequence_left, sequence_top, matrix,
                                      fill_i, fill_j) = diagonal
            ELSE /\ top_score(penalty_kind, matrix, fill_i, fill_j) = vertical
                 /\ left_score(penalty_kind, matrix, fill_i, fill_j) = horizontal
                 /\ diagonal_score(sequence_left, sequence_top, matrix,
                                   fill_i, fill_j) = diagonal

(***************************************************************************)
(* C20: make_backtrack returns the largest of the three candidates as      *)
(* score, in the cell too, and exactly the directions whose candidate      *)
(* equals it; the cell is never Empty, and it has more than one direction  *)
(* exactly when two or more candidates share the maximum.                  *)
(***************************************************************************)
C20_MakeBacktrackMaxAndTies ==
    (algorithm = "make_backtrack" /\ pc = "made") =>
        LET t == call.top
            d == call.diagonal
            l == call.left
            ind == call.backtrack.ind
            directions == (IF HasT(ind) THEN 1 ELSE 0) + (IF HasD(ind) THEN 1 ELSE 0)
                          + (IF HasL(ind) THEN 1 ELSE 0)
            at_maximum == Cardinality({k \in 1..3 : <<t, d, l>>[k] = call.score})
        IN  /\ call.score \in {t, d, l}
            /\ call.score >= t /\ call.score >= d /\ call.score >= l
            /\ call.backtrack.score = call.score
            /\ HasT(ind) <=> t = call.score
            /\ HasD(ind) <=> d = call.score
            /\ HasL(ind) <=> l = call.score
            /\ call.backtrack # Empty
            /\ ind \in 1..7
            /\ directions > 1 <=> at_maximum > 1

\* a cell was made from a tie of the top and left candidates above the
\* diagonal one
C20_Witness ==
    /\ algorithm = "make_backtrack"
    /\ pc = "made"
    /\ call.top = call.left
    /\ call.diagonal < call.top
    /\ call.backtrack.ind = 5

(***************************************************************************)
(* C21: with a finite cutoff, every path that backtracking has emitted     *)
(* ends at a cell that is (0,0) or holds a score <= cutoff, no earlier     *)
(* coordinate of the path is such a cell, and no emitted path goes on      *)
(* beyond the end of another, so the directions of the stopping cell are   *)
(* not followed.                                                           *)
(***************************************************************************)
StopsAt(m, c, cutoff) ==
    \/ c = <<0, 0>>
    \/ (index(m, c[1], c[2]).ind # 0 /\ index(m, c[1], c[2]).score <= cutoff)

C21_PathEndsAtFirstStoppingCell ==
    (algorithm = "Backtracking" /\ cutoff_score # NEG_INFINITY) =>
        \A k \in 1..Len(paths) :
            LET q == paths[k]
            IN  /\ Len(q) >= 1
                /\ StopsAt(matrix, q[Len(q)], cutoff_score)
                /\ \A n \in 1..(Len(q) - 1) : ~StopsAt(matrix, q[n], cutoff_score)
                /\ \A o \in 1..Len(paths) :
                      ~(Len(paths[o]) > Len(q) /\ SubSeq(paths[o], 1, Len(q)) = q)

\* backtracking with cutoff 0 returned a path of three coordinates that
\* stops away from (0,0), at a cell of score 0 that records a direction
C21_Witness ==
    /\ algorithm = "Backtracking"
    /\ cutoff_score = 0
    /\ pc = "returned"
    /\ \E k \in 1..Len(paths) :
          LET q == paths[k]
              end == q[Len(q)]
          IN  /\ Len(q) = 3
              /\ end # <<0, 0>>
              /\ index(matrix, end[1], end[2]).ind # 0
              /\ index(matrix, end[1], end[2]).score = 0

(***************************************************************************)
(* C22: for a path of k >= 1 coordinates, ordered from end to start, made  *)
(* of unit diagonal, vertical and horizontal steps inside the matrix of    *)
(* the two sequences, AlignmentSequence::new gives exactly k - 1 pairs,    *)
(* ordered from start to end; the pair of the step that arrives at         *)
(* (row, col) is (left[row-1], top[col-1]) for a diagonal step,            *)
(* (left[row-1], None) for a vertical one and (None, top[col-1]) for a     *)
(* horizontal one (the sequences of the model count from 1).               *)
(***************************************************************************)
InsideSequences(path) ==
    \A x \in 1..Len(path) :
        /\ path[x][1] <= Len(sequence_left)
        /\ path[x][2] <= Len(sequence_top)

OnlyUnitSteps(path) == \A x \in 1..(Len(path) - 1) : UnitStep(path[x], path[x + 1])

C22_PairsFollowTheSteps ==
    (/\ algorithm = "AlignmentSequence"
     /\ pc # "request"
     /\ Len(call.backtrack_path) >= 1
     /\ OnlyUnitSteps(call.backtrack_path)
     /\ InsideSequences(call.backtrack_path))
    => LET path == call.backtrack_path
           k == Len(path)
       IN  /\ pc = "built"
           /\ Len(call.pairs) = k - 1
           /\ \A x \in 1..(k - 1) :
                 LET to == path[k - x]
                     from == path[k - x + 1]
                     step == <<to[1] - from[1], to[2] - from[2]>>
                 IN  call.pairs[x] =
                        CASE step = <<1, 1>> -> <<Some(sequence_left[to[1]]),
                                                  Some(sequence_top[to[2]])>>
                          [] step = <<1, 0>> -> <<Some(sequence_left[to[1]]), None>>
                          [] step = <<0, 1>> -> <<None, Some(sequence_top[to[2]])>>

\* the alignment of the path (2,1),(1,0),(0,0) on left = AC, top = C was
\* built: a vertical step to (1,0), then a diagonal step to (2,1)
C22_Witness ==
    /\ algorithm = "AlignmentSequence"
    /\ pc = "built"
    /\ sequence_left = <<Aac_A, Aac_C>>
    /\ sequence_top = <<Aac_C>>
    /\ call.backtrack_path = << <<2, 1>>, <<1, 0>>, <<0, 0>> >>
    /\ call.pairs = << <<Some(Aac_A), None>>, <<Some(Aac_C), Some(Aac_C)>> >>

(***************************************************************************)
(* C23: AlignmentSequence::new aborts on every path that has a step other  *)
(* than a unit diagonal, unit vertical or unit horizontal step (a repeated *)
(* coordinate, a jump of more than one row or column, a step that          *)
(* increases a coordinate); it builds no alignment from such a path.       *)
(***************************************************************************)
C23_OtherStepsAbort ==
    (/\ algorithm = "AlignmentSequence"
     /\ pc # "request"
     /\ ~OnlyUnitSteps(call.backtrack_path))
    => pc = "panic"

(***************************************************************************)
(* C24: once the fill of the first Local run of a solver is complete,      *)
(* global_maximum is the largest score of the interior cells (when there   *)
(* is an interior cell), maximum_indices lists exactly the interior cells  *)
(* that hold global_maximum, each once, every traversal starts at one of   *)
(* them, and when the run returns every one of them has been a start.      *)
(***************************************************************************)
C24_MaximumEntriesAfterFill ==
    (/\ algorithm = "SmithWaterman"
     /\ results = << >>
     /\ pc \in {"solved", "find_paths", "returned", "done"})
    => LET score_at(c) == index(matrix, c[1], c[2]).score
           holders == {c \in Interior(matrix) : score_at(c) = global_maximum}
       IN  /\ Interior(matrix) # {} =>
                 /\ \A c \in Interior(matrix) : score_at(c) <= global_maximum
                 /\ holders # {}
           /\ Range(maximum_indices) = holders
           /\ Len(maximum_indices) = Cardinality(holders)
           /\ pc \in {"find_paths", "returned"} =>
                 /\ init_cell \in holders
                 /\ init_cell = maximum_indices[start_k]
                 /\ current_path[1] = init_cell
           /\ \A k \in 1..Len(paths) : paths[k][1] \in holders
           /\ \A k \in 1..Len(all_paths) : all_paths[k][1] \in holders
           /\ pc = "done" => {all_paths[k][1] : k \in 1..Len(all_paths)} = holders

\* a first Local run returned after it had started from three cells that
\* share the maximum, none of them the last cell of the matrix
C24_Witness ==
    /\ algorithm = "SmithWaterman"
    /\ results = << >>
    /\ pc = "done"
    /\ Len(maximum_indices) = 3
    /\ \A k \in 1..3 : maximum_indices[k] # <<matrix.rows - 1, matrix.cols - 1>>

(***************************************************************************)
(* C25: when every interior cell has been written once, each after its     *)
(* three dependencies, in any order and with any overlap of the writers,   *)
(* every cell holds the direction set and the score that the row-major,    *)
(* left-to-right fill gives it.                                            *)
(***************************************************************************)
RowMajorFill ==
    LET fresh == Matrix_full(Empty, 1 + Len(sequence_left), 1 + Len(sequence_top))
    IN  IF algorithm = "NeedlemanWunsch"
        THEN LET initialized == NW_initialize(fresh, penalty_kind)
             IN  IF LoopEmpty(initialized) THEN initialized
                 ELSE NW_solve_subproblems(initialized, sequence_left, sequence_top,
                                           penalty_kind, 1, 1).matrix
        ELSE LET initialized == SW_initialize(fresh)
             IN  IF LoopEmpty(initialized) THEN initialized
                 ELSE SW_solve_subproblems([matrix |-> initialized,
                                            global_maximum |-> NEG_INFINITY,
                                            maximum_indices |-> << >>],
                                           sequence_left, sequence_top,
                                           penalty_kind, 1, 1).matrix

C25_FillOrderDoesNotMatter ==
    (call.name = "wavefront" /\ pc \in {"solve", "solved"}) =>
        LET row_major == RowMajorFill
        IN  /\ \A c \in Interior(matrix) :
                  index(matrix, c[1], c[2]).ind # 0 =>
                      index(matrix, c[1], c[2]) = index(row_major, c[1], c[2])
            /\ \A w \in call.in_flight :
                  w.backtrack = index(row_major, w.cell[1], w.cell[2])
            /\ pc = "solved" => matrix = row_major

\* a 3x3 matrix was filled with cell (2,1) written before cell (1,2)
C25_Witness ==
    /\ call.name = "wavefront"
    /\ pc = "solved"
    /\ Len(call.order) = 4
    /\ call.order[2] = <<2, 1>>
    /\ call.order[3] = <<1, 2>>

(***************************************************************************)
(* C26: while run() fills the matrix row by row, left to right, the border *)
(* and every interior cell before the current one are NonEmpty, so the     *)
(* three cells read for the current cell are NonEmpty and the fill does    *)
(* not abort; once the fill has finished no cell of the matrix is Empty.   *)
(***************************************************************************)
C26_NeighboursAreFilled ==
    algorithm \in {"NeedlemanWunsch", "SmithWaterman"} /\ call = NoCall =>
        /\ pc = "solve" =>
              /\ NeighboursNonEmpty(matrix, fill_i, fill_j)
              /\ \A c \in AllCells(matrix) :
                    (c[1] = 0 \/ c[2] = 0 \/ c[1] < fill_i
                     \/ (c[1] = fill_i /\ c[2] < fill_j))
                    => index(matrix, c[1], c[2]).ind # 0
        /\ pc \in {"solved", "find_paths", "returned", "done"} =>
              \A c \in AllCells(matrix) : index(matrix, c[1], c[2]).ind # 0
        /\ pc = "panic" => (algorithm = "SmithWaterman" /\ LoopEmpty(matrix))

\* the first fill of a 4x4 Local matrix has just finished
C26_Witness ==
    /\ algorithm = "SmithWaterman"
    /\ call = NoCall
    /\ results = << >>
    /\ pc = "solved"
    /\ start_k = 1
    /\ all_paths = << >>
    /\ matrix.rows = 4
    /\ matrix.cols = 4
    /\ \A c \in AllCells(matrix) : index(matrix, c[1], c[2]).ind # 0

(***************************************************************************)
(* C27: on a Matrix, whatever pushes were made, at most rows * cols        *)
(* elements are stored, last_entry_indices reports None on an empty        *)
(* matrix and otherwise the position (k div cols, k mod cols) of the       *)
(* latest element, k counting the stored elements from 0, and that         *)
(* position is a position of the matrix at which get returns the element.  *)
(***************************************************************************)
C27_PushFillsRowMajor ==
    algorithm = "Matrix" =>
        LET stored == Len(matrix.container)
            last == last_entry_indices(matrix)
        IN  /\ stored <= matrix.rows * matrix.cols
            /\ ~last.panic
            /\ stored = 0 => last.value = None
            /\ stored > 0 =>
                  /\ last.value = Some(<<(stored - 1) \div matrix.cols,
                                         (stored - 1) % matrix.cols>>)
                  /\ InDimension(matrix, last.value[1][1], last.value[1][2])
                  /\ get(matrix, last.value[1][1], last.value[1][2])
                        = Ok(matrix.container[stored])

(***************************************************************************)
(* C28: on every matrix filled by the Global or the Local solver and for   *)
(* every start cell, backtracking terminates.  Every step of find_paths    *)
(* either extends the current path by a cell whose row + col is strictly   *)
(* smaller (the branches it pushes are such extensions too), or completes  *)
(* the current path and continues with the branch on top of the stack, or  *)
(* completes it on an empty stack and returns; no step aborts; a stack     *)
(* that holds branches is eventually emptied, one branch at a time from    *)
(* the top; and the traversal eventually returns with an empty stack.      *)
(***************************************************************************)
CoordinateSum(c) == c[1] + c[2]

\* the path is the current path and one more cell, nearer to the origin
ExtendsCurrent(path) ==
    /\ Len(path) = Len(current_path) + 1
    /\ SubSeq(path, 1, Len(current_path)) = current_path
    /\ CoordinateSum(path[Len(path)]) < CoordinateSum(current_path[Len(current_path)])

TraversalStep ==
    pc = "find_paths" =>
        \/ /\ pc' = "find_paths"
           /\ ExtendsCurrent(current_path')
           /\ paths' = paths
           /\ Len(pending_stack') >= Len(pending_stack)
           /\ SubSeq(pending_stack', 1, Len(pending_stack)) = pending_stack
           /\ \A n \in (Len(pending_stack) + 1)..Len(pending_stack') :
                 ExtendsCurrent(pending_stack'[n])
        \/ /\ pc' = "find_paths"
           /\ pending_stack # << >>
           /\ paths' = Append(paths, current_path)
           /\ current_path' = pending_stack[Len(pending_stack)]
           /\ pending_stack' = SubSeq(pending_stack, 1, Len(pending_stack) - 1)
        \/ /\ pc' = "returned"
           /\ pending_stack = << >>
           /\ pending_stack' = << >>
           /\ paths' = Append(paths, current_path)

C28_BacktrackingTerminates ==
    /\ [][TraversalStep]_vars
    /\ (pending_stack # << >>) ~> (pending_stack = << >>)
    /\ <>[](pc = "returned" /\ pending_stack = << >>)

\* a traversal of a solver's matrix that started away from the last cell,
\* pushed branches and has returned all their paths
C28_Witness ==
    /\ call.name = "backtracking"
    /\ pc = "returned"
    /\ init_cell # <<matrix.rows - 1, matrix.cols - 1>>
    /\ Len(paths) >= 3
    /\ pending_stack = << >>

(***************************************************************************)
(* C29: in every alignment the Global solver returns no pair is            *)
(* (None, None), the left components without the gaps are the left         *)
(* sequence and the top components without the gaps are the top sequence;  *)
(* in the alignment the Local solver returns they are contiguous           *)
(* subsequences of the left and of the top sequence.                       *)
(***************************************************************************)
\* the components of one side (1 left, 2 top) in order, gaps left out
RECURSIVE Ungapped(_, _)
Ungapped(pairs, side) ==
    IF pairs = << >> THEN << >>
    ELSE Head(pairs)[side] \o Ungapped(Tail(pairs), side)

IsContiguousIn(part, whole) ==
    \E from \in 0..(Len(whole) - Len(part)) :
        SubSeq(whole, from + 1, from + Len(part)) = part

C29_AlignmentsSpellTheSequences ==
    pc = "done" =>
        \A k \in 1..Len(alignments) :
            /\ \A x \in 1..Len(alignments[k]) : alignments[k][x] # <<None, None>>
            /\ IF algorithm = "NeedlemanWunsch"
               THEN /\ Ungapped(alignments[k], 1) = sequence_left
                    /\ Ungapped(alignments[k], 2) = sequence_top
               ELSE /\ IsContiguousIn(Ungapped(alignments[k], 1), sequence_left)
                    /\ IsContiguousIn(Ungapped(alignments[k], 2), sequence_top)

\* a Global run that returned an alignment with a gap on each side
C29_Witness ==
    /\ pc = "done"
    /\ algorithm = "NeedlemanWunsch"
    /\ \E k \in 1..Len(alignments) :
          /\ \E x \in 1..Len(alignments[k]) : alignments[k][x][1] = None
          /\ \E x \in 1..Len(alignments[k]) : alignments[k][x][2] = None
          /\ Len(Ungapped(alignments[k], 1)) < Len(alignments[k])

(***************************************************************************)
(* C30: a further call of run() on a SmithWaterman instance leaves the     *)
(* matrix, global_maximum and maximum_indices as the first run left them,  *)
(* and maximum_indices lists every coordinate once.                        *)
(***************************************************************************)
\* the fields of a SmithWaterman instance after its first run
AfterFirstRun ==
    LET initialized == [matrix |-> SW_initialize(Matrix_full(Empty, 1 + Len(sequence_left),
                                                             1 + Len(sequence_top))),
                        global_maximum |-> NEG_INFINITY,
                        maximum_indices |-> << >>]
    IN  IF LoopEmpty(initialized.matrix) THEN initialized
        ELSE LET solved == SW_solve_subproblems(initialized, sequence_left, sequence_top,
                                                penalty_kind, 1, 1)
             IN  [matrix |-> solved.matrix, global_maximum |-> solved.global_maximum,
                  maximum_indices |-> solved.maximum_indices]

NoDuplicates(s) == \A a, b \in 1..Len(s) : s[a] = s[b] => a = b

C30_SecondRunLeavesTheState ==
    (algorithm = "SmithWaterman" /\ pc = "done" /\ Len(results) >= 1) =>
        /\ matrix = AfterFirstRun.matrix
        /\ global_maximum = AfterFirstRun.global_maximum
        /\ maximum_indices = AfterFirstRun.maximum_indices
        /\ NoDuplicates(maximum_indices)

====
